---- MODULE Spec2Model ----
(***************************************************************************)
(* A model of the streaming ANSI terminal: the tokenizer (AnsiParser), the *)
(* CSI classifier (CsiHandler), the SGR composer (SgrComposer), the cell   *)
(* model (StreamingTerminal), the emission strategies and the stream       *)
(* adapter (TerminalTransform).                                            *)
(*                                                                         *)
(* A character is a one-element name: "ESC" is 0x1b, "LF" \n, "CR" \r,     *)
(* "TAB" \t, "BS" 0x08, "BEL" 0x07, "NUL" any other C0 control byte, "GRAVE" *)
(* the backtick, "BACKSLASH" the backslash; every other string stands for  *)
(* itself.  A string of the program is a sequence of characters.           *)
(***************************************************************************)
EXTENDS Integers, Sequences, FiniteSets, TLC

VARIABLES
  cells,              \* StreamingTerminal.cells
  cursor,             \* StreamingTerminal.cursor
  activeSgr,          \* StreamingTerminal.activeSgr
  savedCursor,        \* StreamingTerminal.savedCursor
  incompleteSequence, \* StreamingTerminal.incompleteSequence
  alphabet,           \* the characters the producer of this run sends
  lastState,          \* the TerminalState the last write returned
  emitted,            \* the lines the line-ready callback saw during the last write
  before,             \* what the last write started from, when its chunk was plain text
  splitRuns,          \* the outcomes of the last input delivered as two chunks
  jumped,             \* a cursor-positioning sequence was processed since the last reset
  sgrReset,           \* the last SGR sequence processed was CSI 0 m
  lastWrite           \* the chunk of the last write, the string it processed and the
                      \* buffer each line-ready callback saw (runs that record it)

VARIABLES
  strategyKind,       \* which LineEmissionStrategy the adapter was built with
  flushTimer,         \* the strategy's flushTimer handle (0 is null)
  emitCallback,       \* whether the strategy holds an emit callback
  timers,             \* the host's pending timers
  lineCallback,       \* whether onLine registered a push callback
  pendingLines,       \* TerminalTransform.pendingLines
  ended,              \* the stream has ended or was destroyed
  delivered,          \* the 'line' events of the last handler, in order
  pushed,             \* what the last handler pushed downstream
  refLines,           \* the lines of the last chunk written one line at a time
  postFlush,          \* the flush after onWrite returned true: none, content, empty;
                      \* at stream end: endContent, endEmpty
  lastFired,          \* the timer whose callback ran last, since the last chunk
  gen,                \* flips with every chunk, stream end and destroy
  fires,              \* emit callbacks run by timers since the last chunk (up to 2)
  armedBefore,        \* a timer was pending when the last chunk or the stream end arrived
  errorEvents,        \* the 'error' events of the last handler
  thrown,             \* where the push callback threw in the last handler: none, write, flush, end
  appended,           \* lines appended to the polling queue since construction
  called,             \* the lines the push callback was called with in the last handler
  queueBefore,        \* the polling queue when the last handler or operation started
  polled,             \* the last polling operation and the array it returned
  history             \* the input written and the 'line' events since construction
                      \* (runs that keep it)

VARIABLES
  sgrInput,           \* the argument of a call of SgrComposer made on its own
  sgrOutput           \* what that call returned

termVars == <<cells, cursor, activeSgr, savedCursor, incompleteSequence>>

obsVars == <<lastState, emitted, before, splitRuns, jumped, sgrReset, lastWrite>>

stratVars == <<strategyKind, flushTimer, emitCallback, timers>>

xfVars == <<lineCallback, pendingLines, ended>>

xfObsVars ==
  <<delivered, pushed, refLines, postFlush, lastFired, gen, fires, armedBefore,
    errorEvents, thrown, appended, called, queueBefore, polled, history>>

pureVars == <<sgrInput, sgrOutput>>

vars == <<termVars, alphabet, pureVars, obsVars, stratVars, xfVars, xfObsVars>>

-----------------------------------------------------------------------------
(* Bounds of the model *)
MaxChunkLen == 2
MaxCells == 2
MaxCursor == 3
MaxIncomplete == 3
MaxQueue == 3
MaxParams == 5
MaxRenderCells == 4
MaxInput == 4
TickMs == 50

-----------------------------------------------------------------------------
(* Characters *)

ESC == "ESC"

C0Controls == {"NUL", "BEL", "BS", "TAB", "LF", "CR", "ESC"}

Digits == <<"0", "1", "2", "3", "4", "5", "6", "7", "8", "9">>

DigitChars == {Digits[i] : i \in 1..10}

DigitValue(c) == (CHOOSE i \in 1..10 : Digits[i] = c) - 1

CsiParamChars == DigitChars \cup {";"}

CsiFinalChars ==
  {"A", "B", "C", "D", "E", "F", "G", "H", "I", "J", "K", "L", "M",
   "N", "O", "P", "Q", "R", "S", "T", "U", "V", "W", "X", "Y", "Z",
   "a", "b", "c", "d", "e", "f", "g", "h", "i", "j", "k", "l", "m",
   "n", "o", "p", "q", "r", "s", "t", "u", "v", "w", "x", "y", "z",
   "GRAVE", "@"}

OscIntroducers == {"]", "P", "^", "_"}

OscStoppers == {"BEL", "ESC", "LF", "CR"}

SimpleEscapes == {"7", "8", "=", ">", "H", "M"}

\* str[pos], with "" past the end (JavaScript's undefined); pos is 1-based
CharAt(str, pos) == IF pos \in 1..Len(str) THEN str[pos] ELSE ""

Slice(str, from, to) == SubSeq(str, from, to)

-----------------------------------------------------------------------------
(* AnsiParser *)

\* first position >= pos whose character is not in the set (Len+1 if none)
RECURSIVE SkipWhile(_, _, _)
SkipWhile(str, pos, set) ==
  IF pos <= Len(str) /\ str[pos] \in set
    THEN SkipWhile(str, pos + 1, set)
    ELSE pos

\* CSI_REGEX (ESC [, any of 0-9 and ;, one final byte) at pos: the position of the final
\* byte, or 0 without a match
CsiMatchEnd(str, pos) ==
  IF CharAt(str, pos) = ESC /\ CharAt(str, pos + 1) = "["
    THEN LET e == SkipWhile(str, pos + 2, CsiParamChars)
         IN  IF CharAt(str, e) \in CsiFinalChars THEN e ELSE 0
    ELSE 0

\* an OSC match that runs on through line ends
OscMatchLenPastNewline(str, pos) ==
  IF CharAt(str, pos) = ESC /\ CharAt(str, pos + 1) \in OscIntroducers
    THEN LET e == SkipWhile(str, pos + 2, {c \in ({str[i] : i \in 1..Len(str)}) : c \notin {"BEL", "ESC"}})
         IN  e - pos
    ELSE 0

\* OSC_REGEX /^\x1b[\]P^_][^\x07\x1b\n\r]*(?:\x07|\x1b\\)?/ at pos: the length
\* of the match, or 0 without a match
OscMatchLen(str, pos) ==
  IF CharAt(str, pos) = ESC /\ CharAt(str, pos + 1) \in OscIntroducers
    THEN LET e == SkipWhile(str, pos + 2, {c \in ({str[i] : i \in 1..Len(str)}) : c \notin OscStoppers})
         IN  IF CharAt(str, e) = "BEL" THEN e + 1 - pos
             ELSE IF CharAt(str, e) = ESC /\ CharAt(str, e + 1) = "BACKSLASH" THEN e + 2 - pos
             ELSE e - pos
    ELSE 0

\* ESCAPE_REGEX /^\x1b([78]|=|>|H|M)/
EscMatch(str, pos) ==
  CharAt(str, pos) = ESC /\ CharAt(str, pos + 1) \in SimpleEscapes

NoSeq == [type |-> "null", length |-> 1]

parseNext(str, pos) ==
  LET char == str[pos] IN
  IF char \in {"LF", "CR", "TAB", "BS"}
    THEN [type |-> "control", length |-> 1, data |-> char]
  ELSE IF char = ESC
    THEN IF CsiMatchEnd(str, pos) # 0
           THEN LET e == CsiMatchEnd(str, pos)
                IN  [type |-> "csi", length |-> e + 1 - pos,
                     params |-> Slice(str, pos + 2, e - 1), cmd |-> str[e]]
         ELSE IF OscMatchLen(str, pos) # 0
           THEN [type |-> "escape", length |-> OscMatchLen(str, pos), data |-> "OSC"]
         ELSE IF EscMatch(str, pos)
           THEN [type |-> "escape", length |-> 2, data |-> str[pos + 1]]
         ELSE [type |-> "escape", length |-> 1, data |-> ESC]
  ELSE IF char \notin C0Controls
    THEN [type |-> "printable", length |-> 1, data |-> char]
  ELSE NoSeq

\* the start of the trailing /(\x1b\[[0-9;]*)$/, or 0
RECURSIVE IncompleteCsiStart(_, _)
IncompleteCsiStart(str, pos) ==
  IF pos < 1 THEN 0
  ELSE IF str[pos] \in CsiParamChars THEN IncompleteCsiStart(str, pos - 1)
  ELSE IF str[pos] = "[" /\ CharAt(str, pos - 1) = ESC THEN pos - 1
  ELSE 0

getIncompleteSequence(str) ==
  IF Len(str) > 0 /\ str[Len(str)] = ESC THEN <<ESC>>
  ELSE LET s == IncompleteCsiStart(str, Len(str))
       IN  IF s # 0 THEN Slice(str, s, Len(str)) ELSE <<>>

-----------------------------------------------------------------------------
(* CsiHandler *)

\* parseInt(n, 10) || 0 of a field made of digits only ("" gives NaN, so 0)
RECURSIVE ParseIntOr0(_)
ParseIntOr0(field) ==
  IF field = <<>> THEN 0
  ELSE 10 * ParseIntOr0(SubSeq(field, 1, Len(field) - 1)) + DigitValue(field[Len(field)])

\* params.split(';')
RECURSIVE SplitSemi(_)
SplitSemi(params) ==
  LET e == SkipWhile(params, 1, DigitChars) IN
  IF e > Len(params) THEN <<params>>
  ELSE <<SubSeq(params, 1, e - 1)>> \o SplitSemi(SubSeq(params, e + 1, Len(params)))

\* a categorisation that leaves save and restore out of the cursor commands
categorizeWithoutSaveRestore(cmd) ==
  [cursor  |-> cmd \in {"G", "C", "D", "GRAVE"},
   erasure |-> cmd \in {"K", "X", "P", "@"},
   style   |-> cmd = "m"]

categorize(cmd) ==
  [cursor  |-> cmd \in {"G", "C", "D", "GRAVE", "s", "u"},
   erasure |-> cmd \in {"K", "X", "P", "@"},
   style   |-> cmd = "m"]

CsiParse(params, cmd) ==
  [command |-> cmd,
   params  |-> IF params = <<>> THEN <<0>>
               ELSE LET f == SplitSemi(params) IN [i \in 1..Len(f) |-> ParseIntOr0(f[i])],
   affects |-> categorize(cmd)]

-----------------------------------------------------------------------------
(* SgrComposer *)

\* An optional field is <<>> when unset and <<v>> when set to v.
Unset == <<>>

Set(v) == <<v>>

SgrFields == {"fg", "bg", "bold", "dim", "italic", "underline", "blink",
              "inverse", "hidden", "strikethrough"}

EmptySgr == [f \in SgrFields |-> Unset]

\* JavaScript's bitwise operators on 32-bit two's-complement integers
Pow2(n) == 2 ^ n

\* bit k (0..31) of the 32-bit integer x
Bit(x, k) == IF k = 31 THEN (IF x < 0 THEN 1 ELSE 0) ELSE (x \div Pow2(k)) % 2

RECURSIVE OrBits(_, _, _)
OrBits(a, b, k) ==
  IF k < 0 THEN 0
  ELSE (IF Bit(a, k) = 1 \/ Bit(b, k) = 1 THEN Pow2(k) ELSE 0) + OrBits(a, b, k - 1)

\* a | b
BitOr(a, b) ==
  IF a < 0 \/ b < 0 THEN (OrBits(a, b, 30) - Pow2(30)) - Pow2(30) ELSE OrBits(a, b, 30)

\* a << n for 0 < n < 31: the bits shifted past bit 31 are lost, bit 31 is the sign
ShiftLeft(a, n) ==
  LET low == (a % Pow2(31 - n)) * Pow2(n) IN
  IF Bit(a, 31 - n) = 1 THEN (low - Pow2(30)) - Pow2(30) ELSE low

RgbFlag == 16777216

\* (r << 16) | (g << 8) | b | 0x1000000
PackRgb(r, g, b) == BitOr(BitOr(BitOr(ShiftLeft(r, 16), ShiftLeft(g, 8)), b), RgbFlag)

\* params[i] with 1-based i, <<>> where JavaScript gives undefined
ParamAt(params, i) == IF i \in 1..Len(params) THEN <<params[i]>> ELSE <<>>

\* one step of the scan of SgrComposer.parse: the attributes after params[i]
SgrApplyCode(attrs, params, i) ==
  LET p == params[i] IN
  CASE p = 1 -> [attrs EXCEPT !.bold = Set(TRUE)]
    [] p = 2 -> [attrs EXCEPT !.dim = Set(TRUE)]
    [] p = 3 -> [attrs EXCEPT !.italic = Set(TRUE)]
    [] p = 4 -> [attrs EXCEPT !.underline = Set(TRUE)]
    [] p = 5 -> [attrs EXCEPT !.blink = Set(TRUE)]
    [] p = 7 -> [attrs EXCEPT !.inverse = Set(TRUE)]
    [] p = 8 -> [attrs EXCEPT !.hidden = Set(TRUE)]
    [] p = 9 -> [attrs EXCEPT !.strikethrough = Set(TRUE)]
    [] p = 22 -> [attrs EXCEPT !.bold = Set(FALSE), !.dim = Set(FALSE)]
    [] p = 23 -> [attrs EXCEPT !.italic = Set(FALSE)]
    [] p = 24 -> [attrs EXCEPT !.underline = Set(FALSE)]
    [] p = 25 -> [attrs EXCEPT !.blink = Set(FALSE)]
    [] p = 27 -> [attrs EXCEPT !.inverse = Set(FALSE)]
    [] p = 28 -> [attrs EXCEPT !.hidden = Set(FALSE)]
    [] p = 29 -> [attrs EXCEPT !.strikethrough = Set(FALSE)]
    [] p >= 30 /\ p <= 37 -> [attrs EXCEPT !.fg = Set(p - 30)]
    [] p = 38 ->
         IF ParamAt(params, i + 1) = <<5>> /\ ParamAt(params, i + 2) # <<>>
           THEN [attrs EXCEPT !.fg = Set(params[i + 2])]
         ELSE IF ParamAt(params, i + 1) = <<2>> /\ ParamAt(params, i + 4) # <<>>
           THEN [attrs EXCEPT !.fg = Set(PackRgb(params[i + 2], params[i + 3], params[i + 4]))]
         ELSE attrs
    [] p = 39 -> [attrs EXCEPT !.fg = Unset]
    [] p >= 40 /\ p <= 47 -> [attrs EXCEPT !.bg = Set(p - 40)]
    [] p = 48 ->
         IF ParamAt(params, i + 1) = <<5>> /\ ParamAt(params, i + 2) # <<>>
           THEN [attrs EXCEPT !.bg = Set(params[i + 2])]
         ELSE IF ParamAt(params, i + 1) = <<2>> /\ ParamAt(params, i + 4) # <<>>
           THEN [attrs EXCEPT !.bg = Set(PackRgb(params[i + 2], params[i + 3], params[i + 4]))]
         ELSE attrs
    [] p = 49 -> [attrs EXCEPT !.bg = Unset]
    [] p >= 90 /\ p <= 97 -> [attrs EXCEPT !.fg = Set(p - 90 + 8)]
    [] p >= 100 /\ p <= 107 -> [attrs EXCEPT !.bg = Set(p - 100 + 8)]
    [] OTHER -> attrs

\* how far the scan advances over params[i] and the sub-parameters it consumed
SgrAdvance(params, i) ==
  IF params[i] \in {38, 48}
    THEN IF ParamAt(params, i + 1) = <<5>> /\ ParamAt(params, i + 2) # <<>> THEN 3
         ELSE IF ParamAt(params, i + 1) = <<2>> /\ ParamAt(params, i + 4) # <<>> THEN 5
         ELSE 1
    ELSE 1

RECURSIVE SgrScanResetsAndGoesOn(_, _, _)
SgrScanResetsAndGoesOn(attrs, params, i) ==
  IF i > Len(params) THEN attrs
  ELSE IF params[i] = 0 THEN SgrScanResetsAndGoesOn(EmptySgr, params, i + 1)
  ELSE SgrScanResetsAndGoesOn(SgrApplyCode(attrs, params, i), params, i + SgrAdvance(params, i))

RECURSIVE SgrScan(_, _, _)
SgrScan(attrs, params, i) ==
  IF i > Len(params) THEN attrs
  ELSE IF params[i] = 0 THEN EmptySgr
  ELSE SgrScan(SgrApplyCode(attrs, params, i), params, i + SgrAdvance(params, i))

SgrParse(params) == SgrScan(EmptySgr, params, 1)

\* an overlay in which an explicit false leaves the field to base
composeDropsFalse(base, overlay) ==
  [f \in SgrFields |->
     IF overlay[f] = Unset \/ (f \notin {"fg", "bg"} /\ overlay[f] = Set(FALSE))
       THEN base[f] ELSE overlay[f]]

\* { ...base, ...overlay }
compose(base, overlay) ==
  [f \in SgrFields |-> IF overlay[f] # Unset THEN overlay[f] ELSE base[f]]

isEmpty(attrs) == \A f \in SgrFields : attrs[f] = Unset

\* a comparison that never finds two records equal
equalsNever(a, b) == FALSE

equals(a, b) == \A f \in SgrFields : a[f] = b[f]

\* String(n) of a non-negative integer
RECURSIVE NumToChars(_)
NumToChars(n) ==
  IF n < 10 THEN <<Digits[n + 1]>>
  ELSE NumToChars(n \div 10) \o <<Digits[(n % 10) + 1]>>

IsTrue(field) == field = Set(TRUE)

BoolCodes(attrs) ==
  (IF IsTrue(attrs.bold) THEN <<1>> ELSE <<>>) \o
  (IF IsTrue(attrs.dim) THEN <<2>> ELSE <<>>) \o
  (IF IsTrue(attrs.italic) THEN <<3>> ELSE <<>>) \o
  (IF IsTrue(attrs.underline) THEN <<4>> ELSE <<>>) \o
  (IF IsTrue(attrs.blink) THEN <<5>> ELSE <<>>) \o
  (IF IsTrue(attrs.inverse) THEN <<7>> ELSE <<>>) \o
  (IF IsTrue(attrs.hidden) THEN <<8>> ELSE <<>>) \o
  (IF IsTrue(attrs.strikethrough) THEN <<9>> ELSE <<>>)

\* the codes of one color; base is 30 (foreground) or 40 (background)
ColorCodesStandardOnly(field, base) ==
  IF field = Unset THEN <<>>
  ELSE LET c == field[1] IN
       IF Bit(c, 24) = 1
         THEN <<base + 8, 2, (c \div Pow2(16)) % 256, (c \div Pow2(8)) % 256, c % 256>>
       ELSE IF c < 16 THEN <<base + c>>
       ELSE <<base + 8, 5, c>>

ColorCodes(field, base) ==
  IF field = Unset THEN <<>>
  ELSE LET c == field[1] IN
       IF Bit(c, 24) = 1
         THEN <<base + 8, 2, (c \div Pow2(16)) % 256, (c \div Pow2(8)) % 256, c % 256>>
       ELSE IF c < 8 THEN <<base + c>>
       ELSE IF c < 16 THEN <<base + 60 + (c - 8)>>
       ELSE <<base + 8, 5, c>>

RECURSIVE JoinCodes(_)
JoinCodes(codes) ==
  IF Len(codes) = 1 THEN NumToChars(codes[1])
  ELSE NumToChars(codes[1]) \o <<";">> \o JoinCodes(Tail(codes))

\* the colors pushed before the booleans
toSequenceColorsFirst(attrs) ==
  LET codes == ColorCodes(attrs.fg, 30) \o ColorCodes(attrs.bg, 40) \o BoolCodes(attrs)
  IN  IF codes = <<>> THEN <<>>
      ELSE <<ESC, "[">> \o JoinCodes(codes) \o <<"m">>

toSequence(attrs) ==
  LET codes == BoolCodes(attrs) \o ColorCodes(attrs.fg, 30) \o ColorCodes(attrs.bg, 40)
  IN  IF codes = <<>> THEN <<>>
      ELSE <<ESC, "[">> \o JoinCodes(codes) \o <<"m">>

-----------------------------------------------------------------------------
(* StreamingTerminal *)

\* A cell is Empty (JavaScript's null, or a hole of the array) or a glyph.
Empty == [char |-> "", sgr |-> EmptySgr]

Glyph(ch, sgr) == [char |-> ch, sgr |-> sgr]

Max(a, b) == IF a >= b THEN a ELSE b

Min(a, b) == IF a <= b THEN a ELSE b

Holes(n) == [i \in 1..n |-> Empty]

\* cs[idx] = v for a 0-based idx: an assignment past the end leaves holes
SetCell(cs, idx, v) ==
  IF idx < Len(cs) THEN [cs EXCEPT ![idx + 1] = v]
  ELSE cs \o Holes(idx - Len(cs)) \o <<v>>

\* cs.length = n
SetLength(cs, n) ==
  IF n <= Len(cs) THEN SubSeq(cs, 1, n) ELSE cs \o Holes(n - Len(cs))

\* cs[from .. to] = null for 0-based from..to
RECURSIVE EraseRange(_, _, _)
EraseRange(cs, from, to) ==
  IF from > to THEN cs ELSE EraseRange(SetCell(cs, from, Empty), from + 1, to)

\* cs.splice(start, deleteCount, ...items)
Splice(cs, start, deleteCount, items) ==
  LET st == Min(start, Len(cs))
      dc == Min(deleteCount, Len(cs) - st)
  IN  SubSeq(cs, 1, st) \o items \o SubSeq(cs, st + dc + 1, Len(cs))

\* a parameter read that takes 0 literally
Param0Literal(params, dflt) == params[1]

\* params[0] || dflt
Param0(params, dflt) == IF params[1] = 0 THEN dflt ELSE params[1]

\* The terminal while a write runs: the fields of the object, the TerminalState
\* being filled in, and the lines the line-ready callback has delivered.
NewState ==
  [hadNewline |-> FALSE, hadCarriageReturn |-> FALSE,
   hadCursorMovement |-> FALSE, hadErasure |-> FALSE]

\* Find last non-null cell (0 when there is none; 1-based)
RECURSIVE LastContentIndex(_, _)
LastContentIndex(cs, j) ==
  IF j < 1 THEN 0
  ELSE IF cs[j].char # "" THEN j
  ELSE LastContentIndex(cs, j - 1)

SGR_RESET == <<ESC, "[", "0", "m">>

\* the walk over cells i..last of renderLine; the result carries lastSgr
RECURSIVE RenderWalk(_, _, _, _, _)
RenderWalk(cs, i, last, lastSgr, result) ==
  IF i > last
    THEN IF ~isEmpty(lastSgr) THEN result \o SGR_RESET ELSE result
  ELSE LET cell == cs[i] IN
    IF cell.char # ""
      THEN IF ~equals(cell.sgr, lastSgr)
             THEN RenderWalk(cs, i + 1, last, cell.sgr,
                    result \o
                    (IF isEmpty(cell.sgr) THEN SGR_RESET
                     ELSE (IF ~isEmpty(lastSgr) THEN SGR_RESET ELSE <<>>) \o toSequence(cell.sgr))
                    \o <<cell.char>>)
             ELSE RenderWalk(cs, i + 1, last, lastSgr, result \o <<cell.char>>)
      ELSE RenderWalk(cs, i + 1, last, EmptySgr,
             result \o (IF ~isEmpty(lastSgr) THEN SGR_RESET ELSE <<>>) \o <<" ">>)

\* str with its trailing spaces removed
RECURSIVE TrimEnd(_)
TrimEnd(str) ==
  IF Len(str) > 0 /\ str[Len(str)] = " " THEN TrimEnd(SubSeq(str, 1, Len(str) - 1)) ELSE str

EndsWithReset(str) ==
  Len(str) >= 4 /\ SubSeq(str, Len(str) - 3, Len(str)) = SGR_RESET

\* result.replace(/ +\x1b\[0m$/, '\x1b[0m').replace(/ +$/, '')
TrimTrailing(str) ==
  TrimEnd(IF EndsWithReset(str)
            THEN TrimEnd(SubSeq(str, 1, Len(str) - 4)) \o SGR_RESET
            ELSE str)

renderLine(cs) ==
  LET last == LastContentIndex(cs, Len(cs)) IN
  IF last = 0 THEN <<>>
  ELSE TrimTrailing(RenderWalk(cs, 1, last, EmptySgr, <<>>))

\* reset()
TermReset(w) == [w EXCEPT !.cells = <<>>, !.cursor = 0]

\* The line-ready callback, by who registered it: "none" (no callback), "observe"
\* (a callback that reads renderLine()), "emit" (TerminalTransform's
\* emitCurrentLine: render, reset, deliver).
lineReadyCallbackNoReset(w, cb) ==
  CASE cb = "none" -> w
    [] OTHER -> [w EXCEPT !.lines = @ \o <<renderLine(w.cells)>>]

lineReadyCallback(w, cb) ==
  CASE cb = "none" -> w
    [] cb = "observe" -> [w EXCEPT !.lines = @ \o <<renderLine(w.cells)>>,
                                   !.seen = @ \o <<w.incompleteSequence>>]
    [] cb = "emit" -> [TermReset(w) EXCEPT !.lines = @ \o <<renderLine(w.cells)>>]

applyCsi(w, csi) ==
  LET params == csi.params
      w1 == [w EXCEPT !.state.hadCursorMovement = @ \/ csi.affects.cursor,
                      !.state.hadErasure = @ \/ csi.affects.erasure]
      cmd == csi.command
  IN
  CASE cmd = "m" -> [w1 EXCEPT !.activeSgr = compose(@, SgrParse(params))]
    [] cmd \in {"G", "GRAVE"} -> [w1 EXCEPT !.cursor = Max(0, Param0(params, 1) - 1)]
    [] cmd = "C" -> [w1 EXCEPT !.cursor = @ + Param0(params, 1)]
    [] cmd = "D" -> [w1 EXCEPT !.cursor = Max(0, @ - Param0(params, 1))]
    [] cmd = "K" ->
         LET mode == Param0(params, 0) IN
         IF mode = 0 THEN [w1 EXCEPT !.cells = SetLength(@, w1.cursor)]
         ELSE IF mode = 1 THEN [w1 EXCEPT !.cells = EraseRange(@, 0, w1.cursor)]
         ELSE IF mode = 2 THEN [w1 EXCEPT !.cells = <<>>, !.cursor = 0]
         ELSE w1
    [] cmd = "X" ->
         [w1 EXCEPT !.cells = EraseRange(@, w1.cursor, w1.cursor + Param0(params, 1) - 1)]
    [] cmd = "P" -> [w1 EXCEPT !.cells = Splice(@, w1.cursor, Param0(params, 1), <<>>)]
    [] cmd = "@" -> [w1 EXCEPT !.cells = Splice(@, w1.cursor, 0, Holes(Param0(params, 1)))]
    [] cmd = "s" -> [w1 EXCEPT !.savedCursor = w1.cursor]
    [] cmd = "u" -> [w1 EXCEPT !.cursor = w1.savedCursor]
    [] OTHER -> w1

\* an ESC 8 that also stores the cursor it restores from
applyEscapeRestoreSaves(w, data) ==
  CASE data = "7" -> [w EXCEPT !.savedCursor = w.cursor, !.state.hadCursorMovement = TRUE]
    [] data = "8" -> [w EXCEPT !.cursor = w.savedCursor, !.savedCursor = w.cursor,
                               !.state.hadCursorMovement = TRUE]
    [] OTHER -> w

applyEscape(w, data) ==
  CASE data = "7" -> [w EXCEPT !.savedCursor = w.cursor, !.state.hadCursorMovement = TRUE]
    [] data = "8" -> [w EXCEPT !.cursor = w.savedCursor, !.state.hadCursorMovement = TRUE]
    [] OTHER -> w

\* the tab stop loop: spaces up to the next multiple of 8
RECURSIVE TabFill(_, _)
TabFill(w, nextTab) ==
  IF w.cursor < nextTab
    THEN TabFill([w EXCEPT !.cells = SetCell(@, w.cursor, Glyph(" ", w.activeSgr)),
                           !.cursor = @ + 1], nextTab)
    ELSE w

\* a carriage return that also clears the line
applyControlCrClears(w, char, cb) ==
  CASE char = "CR" -> [w EXCEPT !.cursor = 0, !.cells = <<>>, !.state.hadCarriageReturn = TRUE]
    [] char = "LF" -> lineReadyCallback([w EXCEPT !.state.hadNewline = TRUE], cb)
    [] char = "BS" -> [w EXCEPT !.cursor = Max(0, @ - 1), !.state.hadCursorMovement = TRUE]
    [] char = "TAB" -> TabFill(w, ((w.cursor \div 8) + 1) * 8)
    [] OTHER -> w

\* a backspace that does not stop at column 0
applyControlBackspaceUnclamped(w, char, cb) ==
  CASE char = "CR" -> [w EXCEPT !.cursor = 0, !.state.hadCarriageReturn = TRUE]
    [] char = "LF" -> lineReadyCallback([w EXCEPT !.state.hadNewline = TRUE], cb)
    [] char = "BS" -> [w EXCEPT !.cursor = @ - 1, !.state.hadCursorMovement = TRUE]
    [] char = "TAB" -> TabFill(w, ((w.cursor \div 8) + 1) * 8)
    [] OTHER -> w

applyControl(w, char, cb) ==
  CASE char = "CR" -> [w EXCEPT !.cursor = 0, !.state.hadCarriageReturn = TRUE]
    [] char = "LF" -> lineReadyCallback([w EXCEPT !.state.hadNewline = TRUE], cb)
    [] char = "BS" -> [w EXCEPT !.cursor = Max(0, @ - 1), !.state.hadCursorMovement = TRUE]
    [] char = "TAB" -> TabFill(w, ((w.cursor \div 8) + 1) * 8)
    [] OTHER -> w

\* a glyph write that advances the saved cursor together with the cursor
applyPrintableMovesSaved(w, ch) ==
  [w EXCEPT !.cells = SetCell(@, w.cursor, Glyph(ch, w.activeSgr)), !.cursor = @ + 1,
            !.savedCursor = w.cursor + 1]

\* a glyph write that restyles the cells already on the line
applyPrintableRestyles(w, ch) ==
  [w EXCEPT !.cells = SetCell([i \in 1..Len(@) |-> [@[i] EXCEPT !.sgr = w.activeSgr]],
                              w.cursor, Glyph(ch, w.activeSgr)),
            !.cursor = @ + 1]

applyPrintable(w, ch) ==
  [w EXCEPT !.cells = SetCell(@, w.cursor, Glyph(ch, w.activeSgr)), !.cursor = @ + 1]

\* the dispatch of one parsed sequence in the loop of write
applySeq(w, seq, cb) ==
  CASE seq.type = "csi" -> applyCsi(w, CsiParse(seq.params, seq.cmd))
    [] seq.type = "escape" -> applyEscape(w, seq.data)
    [] seq.type = "control" -> applyControl(w, seq.data, cb)
    [] seq.type = "printable" -> applyPrintable(w, seq.data)
    [] OTHER -> w

\* the loop of write from position i (1-based)
RECURSIVE WriteLoop(_, _, _, _)
WriteLoop(w, str, i, cb) ==
  IF i > Len(str) THEN w
  ELSE LET seq == parseNext(str, i)
       IN  WriteLoop(applySeq(w, seq, cb), str, i + seq.length, cb)

\* keeps whatever follows the last ESC of the string
keepTrailingEscape(str) ==
  LET at == {i \in 1..Len(str) : str[i] = ESC}
  IN  IF at = {} THEN <<>>
      ELSE SubSeq(str, CHOOSE i \in at : \A j \in at : j <= i, Len(str))

\* the incomplete sequence to keep for the next chunk
keepIncomplete(str) == getIncompleteSequence(str)

\* write(input) on terminal t = [cells, cursor, activeSgr, savedCursor,
\* incompleteSequence]: the terminal after it, the TerminalState it returns,
\* the lines the line-ready callback delivered while it ran and the buffer an
\* observing callback saw each time
write(t, input, cb) ==
  LET str == t.incompleteSequence \o input
      w0  == [cells |-> t.cells, cursor |-> t.cursor, activeSgr |-> t.activeSgr,
              savedCursor |-> t.savedCursor, incompleteSequence |-> <<>>,
              state |-> NewState, lines |-> <<>>, seen |-> <<>>]
      w   == WriteLoop(w0, str, 1, cb)
  IN  [term  |-> [cells |-> w.cells, cursor |-> w.cursor, activeSgr |-> w.activeSgr,
                  savedCursor |-> w.savedCursor,
                  incompleteSequence |->
                    IF keepIncomplete(str) # <<>> THEN keepIncomplete(str)
                    ELSE w.incompleteSequence],
       seen  |-> w.seen,
       state |-> [hadNewline |-> w.state.hadNewline,
                  hadCarriageReturn |-> w.state.hadCarriageReturn,
                  hadCursorMovement |-> w.state.hadCursorMovement,
                  hadErasure |-> w.state.hadErasure,
                  cursorPosition |-> w.cursor,
                  cellCount |-> Len(w.cells)],
       lines |-> w.lines]

\* a reset that clears the cells and forgets the cursor
resetClearsSgr(t) == [t EXCEPT !.cells = <<>>, !.cursor = 0, !.activeSgr = EmptySgr]

resetKeepsCursor(t) == [t EXCEPT !.cells = <<>>]

\* reset() on a terminal record
reset(t) == [t EXCEPT !.cells = <<>>, !.cursor = 0]

hasContent(t) == Len(t.cells) > 0

\* dispose() of the terminal
dispose(t) == [t EXCEPT !.cells = <<>>, !.activeSgr = EmptySgr, !.incompleteSequence = <<>>]

NewTerminal ==
  [cells |-> <<>>, cursor |-> 0, activeSgr |-> EmptySgr, savedCursor |-> 0,
   incompleteSequence |-> <<>>]

-----------------------------------------------------------------------------
(* The terminal on its own: a producer writes chunks, the owner resets *)

\* the terminal object as a record
Terminal ==
  [cells |-> cells, cursor |-> cursor, activeSgr |-> activeSgr,
   savedCursor |-> savedCursor, incompleteSequence |-> incompleteSequence]

Chunks(alpha) == UNION {[1..n -> alpha] : n \in 0..MaxChunkLen}

WithinBounds(t) ==
  /\ Len(t.cells) <= MaxCells
  /\ t.cursor <= MaxCursor
  /\ Len(t.incompleteSequence) <= MaxIncomplete

\* the sequences the loop of write parses in str, in order
RECURSIVE Tokens(_, _)
Tokens(str, i) ==
  IF i > Len(str) THEN <<>>
  ELSE LET seq == parseNext(str, i) IN <<seq>> \o Tokens(str, i + seq.length)

IsJump(seq) ==
  \/ seq.type = "csi" /\ seq.cmd \in {"C", "G", "GRAVE", "u"}
  \/ seq.type = "escape" /\ seq.data = "8"

IsSgr(seq) == seq.type = "csi" /\ seq.cmd = "m"

\* whether the last SGR sequence among toks is CSI 0 m; was when there is none
RECURSIVE LastSgrIsReset(_, _)
LastSgrIsReset(toks, was) ==
  IF toks = <<>> THEN was
  ELSE LET seq == toks[Len(toks)] IN
       IF IsSgr(seq) THEN seq.params = <<"0">>
       ELSE LastSgrIsReset(SubSeq(toks, 1, Len(toks) - 1), was)

IsPlain(chunk) == \A i \in 1..Len(chunk) : chunk[i] \notin C0Controls

NotPlain == [plain |-> FALSE]

\* what a write leaves to compare: cells, cursor, active SGR, emitted lines
Outcome(t, lines) ==
  [cells |-> t.cells, cursor |-> t.cursor, activeSgr |-> t.activeSgr, lines |-> lines]

\* write(c1) then write(c2)
WriteTwice(t, c1, c2, cb) ==
  LET r1 == write(t, c1, cb)
      r2 == write(r1.term, c2, cb)
  IN  Outcome(r2.term, r1.lines \o r2.lines)

SetTerminal(t) ==
  /\ cells' = t.cells
  /\ cursor' = t.cursor
  /\ activeSgr' = t.activeSgr
  /\ savedCursor' = t.savedCursor
  /\ incompleteSequence' = t.incompleteSequence

\* the outcomes of the input delivered as two chunks, for every split point
SplitOutcomes(t, chunk, cb) ==
  {WriteTwice(t, SubSeq(chunk, 1, k), SubSeq(chunk, k + 1, Len(chunk)), cb) :
     k \in 0..Len(chunk)}

NoInput == [recorded |-> FALSE]

\* what a write of the producer leaves: r is what write returned, runs what to
\* record of the split deliveries, rec what to record of the write itself
WriteRecorded(chunk, runs, r, rec) ==
  LET toks == Tokens(incompleteSequence \o chunk, 1)
  IN  /\ SetTerminal(r.term)
      /\ lastState' = r.state
      /\ emitted' = r.lines
      /\ before' = IF IsPlain(chunk)
                     THEN [plain |-> TRUE, activeSgr |-> activeSgr,
                           savedCursor |-> savedCursor,
                           buffered |-> incompleteSequence # <<>>,
                           wrote |-> chunk # <<>>]
                     ELSE NotPlain
      /\ splitRuns' = runs
      /\ jumped' = (jumped \/ \E i \in 1..Len(toks) : IsJump(toks[i]))
      /\ sgrReset' = LastSgrIsReset(toks, sgrReset)
      /\ lastWrite' = rec
      /\ UNCHANGED <<alphabet, pureVars, stratVars, xfVars, xfObsVars>>

WriteWithin(chunk, runs, r) ==
  /\ WithinBounds(r.term)
  /\ WriteRecorded(chunk, runs, r, NoInput)

\* a write of the producer
WriteStep(chunk, runs) == WriteWithin(chunk, runs, write(Terminal, chunk, "observe"))

TermWrite(chunk) == WriteStep(chunk, {})

SplitWrite(chunk) == WriteStep(chunk, SplitOutcomes(Terminal, chunk, "observe"))

NoWrite == [written |-> FALSE]

TermResetStep ==
  /\ SetTerminal(reset(Terminal))
  /\ lastState' = NoWrite
  /\ emitted' = <<>>
  /\ before' = NotPlain
  /\ splitRuns' = {}
  /\ jumped' = FALSE
  /\ lastWrite' = NoInput
  /\ UNCHANGED <<alphabet, pureVars, sgrReset, stratVars, xfVars, xfObsVars>>

Disposed == [written |-> FALSE, disposed |-> TRUE]

\* dispose() on the terminal
TermDisposeStep ==
  /\ SetTerminal(dispose(Terminal))
  /\ lastState' = Disposed
  /\ emitted' = <<>>
  /\ before' = NotPlain
  /\ splitRuns' = {}
  /\ lastWrite' = NoInput
  /\ UNCHANGED <<alphabet, pureVars, jumped, sgrReset, stratVars, xfVars, xfObsVars>>

SgrAlphabet == {"ESC", "[", "0", "1", "m", "a"}

CursorAlphabet == {"ESC", "[", "C", "s", "u", "a", "CR"}

TermAlphabets == {SgrAlphabet, CursorAlphabet}

NoCall == [kind |-> "none"]

\* new StreamingTerminal()
FreshTerminal ==
  /\ cells = <<>>
  /\ cursor = 0
  /\ activeSgr = EmptySgr
  /\ savedCursor = 0
  /\ incompleteSequence = <<>>
  /\ lastState = NoWrite
  /\ emitted = <<>>
  /\ before = NotPlain
  /\ splitRuns = {}
  /\ jumped = FALSE
  /\ sgrReset = FALSE
  /\ lastWrite = NoInput

InitTerminal(alphabets) ==
  /\ FreshTerminal
  /\ alphabet \in alphabets
  /\ sgrInput = NoCall
  /\ sgrOutput = NoCall

NoFire == [fired |-> FALSE]

NoPoll == [op |-> "none"]

NoHistory == [kept |-> FALSE]

\* no adapter and no strategy: the terminal is used on its own
NoAdapter ==
  /\ strategyKind = "none"
  /\ flushTimer = 0
  /\ emitCallback = FALSE
  /\ timers = {}
  /\ lineCallback = FALSE
  /\ pendingLines = <<>>
  /\ ended = FALSE
  /\ delivered = <<>>
  /\ pushed = <<>>
  /\ refLines = <<>>
  /\ postFlush = "none"
  /\ lastFired = NoFire
  /\ gen = 0
  /\ fires = 0
  /\ armedBefore = FALSE
  /\ errorEvents = 0
  /\ thrown = "none"
  /\ appended = 0
  /\ called = <<>>
  /\ queueBefore = <<>>
  /\ polled = NoPoll
  /\ history = NoHistory

TermInit == InitTerminal(TermAlphabets) /\ NoAdapter

TermNext ==
  \/ \E chunk \in Chunks(alphabet) : TermWrite(chunk)
  \/ TermResetStep

TermSpec == TermInit /\ [][TermNext]_vars

\* the terminal alone, written, reset and disposed
DisposeInit == InitTerminal({SgrAlphabet}) /\ NoAdapter

DisposeNext ==
  \/ \E chunk \in Chunks(alphabet) : TermWrite(chunk)
  \/ TermResetStep
  \/ TermDisposeStep

DisposeSpec == DisposeInit /\ [][DisposeNext]_vars

(* The same, recording what each input would have done in two chunks *)

SplitAlphabet == {"ESC", "[", "1", "m", "LF"}

SplitInit == InitTerminal({SplitAlphabet}) /\ NoAdapter

SplitNext ==
  \/ \E chunk \in Chunks(alphabet) : SplitWrite(chunk)
  \/ TermResetStep

SplitSpec == SplitInit /\ [][SplitNext]_vars

(* The terminal fed newlines among escape sequences, with an observing callback *)

LineAlphabet == {"ESC", "[", "]", "1", "LF", "a"}

LineWrote(chunk, r) ==
  /\ WithinBounds(r.term)
  /\ WriteRecorded(chunk, {}, r,
       [recorded |-> TRUE, chunk |-> chunk, input |-> incompleteSequence \o chunk,
        seen |-> r.seen])

LineWrite(chunk) == LineWrote(chunk, write(Terminal, chunk, "observe"))

LineInit == InitTerminal({LineAlphabet}) /\ NoAdapter

LineNext ==
  \/ \E chunk \in Chunks(alphabet) : LineWrite(chunk)
  \/ TermResetStep

LineSpec == LineInit /\ [][LineNext]_vars

(* The terminal written in whole sequences, for what renderLine returns *)

\* what the producer sends in one write: a glyph, a space, bold, not-bold,
\* cursor forward, erase character, carriage return
RenderWords ==
  {<<"a">>, <<" ">>, <<ESC, "[", "1", "m">>, <<ESC, "[", "2", "2", "m">>,
   <<ESC, "[", "C">>, <<ESC, "[", "X">>, <<"CR">>}

RenderWrote(word, r) ==
  /\ Len(r.term.cells) <= MaxRenderCells
  /\ r.term.cursor <= MaxRenderCells
  /\ WriteRecorded(word, {}, r, NoInput)

RenderWrite(word) == RenderWrote(word, write(Terminal, word, "observe"))

RenderInit == InitTerminal({{}}) /\ NoAdapter

RenderNext ==
  \/ \E word \in RenderWords : RenderWrite(word)
  \/ TermResetStep

RenderSpec == RenderInit /\ [][RenderNext]_vars

(* The terminal edited in whole sequences: cursor motion, erasure, save and
   restore, with the terminal as it was before the write kept beside it *)

MaxEditCells == 3

\* what the producer sends in one write
EditWords ==
  {<<"a">>, <<"CR">>, <<"BS">>, <<"LF">>, <<"CR", "a">>,
   <<ESC, "[", "1", "m">>,
   <<ESC, "[", "G">>, <<ESC, "[", "0", "G">>, <<ESC, "[", "3", "G">>,
   <<ESC, "[", "2", "GRAVE">>,
   <<ESC, "[", "C">>, <<ESC, "[", "0", "C">>, <<ESC, "[", "2", "C">>,
   <<ESC, "[", "D">>, <<ESC, "[", "0", "D">>, <<ESC, "[", "2", "D">>,
   <<ESC, "[", "s">>, <<ESC, "[", "u">>, <<ESC, "7">>, <<ESC, "8">>,
   <<ESC, "[", "K">>, <<ESC, "[", "0", "K">>, <<ESC, "[", "1", "K">>,
   <<ESC, "[", "2", "K">>, <<ESC, "[", "X">>, <<ESC, "[", "P">>, <<ESC, "[", "@">>}

EditWrote(word, r) ==
  /\ Len(r.term.cells) <= MaxEditCells
  /\ r.term.cursor <= MaxEditCells
  /\ WriteRecorded(word, {}, r,
       [recorded |-> TRUE, chunk |-> word, input |-> incompleteSequence \o word,
        seen |-> r.seen, pre |-> Terminal])

EditWrite(word) == EditWrote(word, write(Terminal, word, "observe"))

EditInit == InitTerminal({{}}) /\ NoAdapter

EditNext ==
  \/ \E word \in EditWords : EditWrite(word)
  \/ TermResetStep
  \/ TermDisposeStep

EditSpec == EditInit /\ [][EditNext]_vars

-----------------------------------------------------------------------------
(* The host's timers: setTimeout and clearTimeout *)

\* A pending timer is [id, delay, elapsed]; handles are positive, 0 is null.
FreshId(ts) == CHOOSE n \in 1..(Cardinality(ts) + 1) : \A t \in ts : t.id # n

setTimeout(ts, id, delay) == ts \cup {[id |-> id, delay |-> delay, elapsed |-> 0]}

clearTimeout(ts, id) == {t \in ts : t.id # id}

-----------------------------------------------------------------------------
(* Emission strategies: st = [kind, flushTimer, emitCallback], ts the timers *)

DefaultTimeout == 100
DefaultVolatileTimeout == 50
DefaultStableTimeout == 200

TimeoutKinds == {"Timeout", "Stateful"}

cancelTimerKeepsHostTimer(st, ts) == [st |-> [st EXCEPT !.flushTimer = 0], timers |-> ts]

cancelTimer(st, ts) ==
  IF st.flushTimer # 0
    THEN [st |-> [st EXCEPT !.flushTimer = 0], timers |-> clearTimeout(ts, st.flushTimer)]
    ELSE [st |-> st, timers |-> ts]

armTimerNever(st, ts, delay) == [st |-> st, timers |-> ts]

\* this.flushTimer = setTimeout(() => { if (this.emitCallback) this.emitCallback() }, delay)
armTimer(st, ts, delay) ==
  LET id == FreshId(ts) IN
  [st |-> [st EXCEPT !.flushTimer = id], timers |-> setTimeout(ts, id, delay)]

\* an immediate strategy that flushes whatever a chunk leaves in the cells
ImmediateOnWriteOnContent(st, ts, term, state) ==
  [st |-> st, timers |-> ts, result |-> hasContent(term)]

ImmediateOnWriteOnNewline(st, ts, term, state) ==
  [st |-> st, timers |-> ts, result |-> state.hadNewline]

ImmediateOnWrite(st, ts, term, state) ==
  [st |-> st, timers |-> ts, result |-> FALSE]

TimeoutOnWriteNoCancel(st, ts, term, state) ==
  IF state.hadNewline THEN [st |-> st, timers |-> ts, result |-> TRUE]
  ELSE IF hasContent(term) /\ st.emitCallback
    THEN LET a == armTimer(st, ts, DefaultTimeout)
         IN  [st |-> a.st, timers |-> a.timers, result |-> FALSE]
  ELSE [st |-> st, timers |-> ts, result |-> FALSE]

TimeoutOnWrite(st, ts, term, state) ==
  LET c == cancelTimer(st, ts) IN
  IF state.hadNewline THEN [st |-> c.st, timers |-> c.timers, result |-> TRUE]
  ELSE IF hasContent(term) /\ c.st.emitCallback
    THEN LET a == armTimer(c.st, c.timers, DefaultTimeout)
         IN  [st |-> a.st, timers |-> a.timers, result |-> FALSE]
  ELSE [st |-> c.st, timers |-> c.timers, result |-> FALSE]

isVolatile(state) ==
  state.hadCarriageReturn \/ state.hadCursorMovement \/ state.hadErasure

StatefulOnWriteKeepsTimer(st, ts, term, state) ==
  IF state.hadNewline THEN [st |-> st, timers |-> ts, result |-> TRUE]
  ELSE LET c == cancelTimer(st, ts) IN
  IF hasContent(term) /\ c.st.emitCallback
    THEN LET a == armTimer(c.st, c.timers,
                           IF isVolatile(state) THEN DefaultVolatileTimeout
                           ELSE DefaultStableTimeout)
         IN  [st |-> a.st, timers |-> a.timers, result |-> FALSE]
  ELSE [st |-> c.st, timers |-> c.timers, result |-> FALSE]

StatefulOnWriteSwapped(st, ts, term, state) ==
  LET c == cancelTimer(st, ts) IN
  IF state.hadNewline THEN [st |-> c.st, timers |-> c.timers, result |-> TRUE]
  ELSE IF hasContent(term) /\ c.st.emitCallback
    THEN LET a == armTimer(c.st, c.timers,
                           IF isVolatile(state) THEN DefaultStableTimeout
                           ELSE DefaultVolatileTimeout)
         IN  [st |-> a.st, timers |-> a.timers, result |-> FALSE]
  ELSE [st |-> c.st, timers |-> c.timers, result |-> FALSE]

StatefulOnWrite(st, ts, term, state) ==
  LET c == cancelTimer(st, ts) IN
  IF state.hadNewline THEN [st |-> c.st, timers |-> c.timers, result |-> TRUE]
  ELSE IF hasContent(term) /\ c.st.emitCallback
    THEN LET a == armTimer(c.st, c.timers,
                           IF isVolatile(state) THEN DefaultVolatileTimeout
                           ELSE DefaultStableTimeout)
         IN  [st |-> a.st, timers |-> a.timers, result |-> FALSE]
  ELSE [st |-> c.st, timers |-> c.timers, result |-> FALSE]

onWrite(st, ts, term, state) ==
  CASE st.kind = "Timeout" -> TimeoutOnWrite(st, ts, term, state)
    [] st.kind = "Stateful" -> StatefulOnWrite(st, ts, term, state)
    [] OTHER -> ImmediateOnWrite(st, ts, term, state)

\* flush(): whether to flush, after cancelling the timer
strategyFlush(st, ts) ==
  IF st.kind \in TimeoutKinds
    THEN LET c == cancelTimer(st, ts) IN [st |-> c.st, timers |-> c.timers, result |-> TRUE]
    ELSE [st |-> st, timers |-> ts, result |-> TRUE]

strategyDispose(st, ts) ==
  IF st.kind \in TimeoutKinds
    THEN LET c == cancelTimer(st, ts)
         IN  [st |-> [c.st EXCEPT !.emitCallback = FALSE], timers |-> c.timers]
    ELSE [st |-> st, timers |-> ts]

\* the timer's callback has run: a timer of setTimeout runs once
afterFiring(ts, t) == ts \ {t}

-----------------------------------------------------------------------------
(* TerminalTransform *)

MAX_PENDING == 1000

\* What emitCurrentLine does with a rendered line; out = [lineCallback,
\* pendingLines, delivered, pushed].
deliverLineNoDrop(out, line) ==
  IF out.lineCallback
    THEN [out EXCEPT !.called = @ \o <<line>>, !.delivered = @ \o <<line>>]
    ELSE [out EXCEPT !.pushed = @ \o <<line \o <<"LF">>>>,
                     !.pendingLines = @ \o <<line>>,
                     !.delivered = @ \o <<line>>]

deliverLineAlwaysQueues(out, line) ==
  LET q == out.pendingLines \o <<line>> IN
  [out EXCEPT !.called = IF out.lineCallback THEN @ \o <<line>> ELSE @,
              !.pushed = @ \o <<line \o <<"LF">>>>,
              !.pendingLines = IF Len(q) > MAX_PENDING THEN Tail(q) ELSE q,
              !.errors = IF Len(q) > MAX_PENDING THEN @ + 1 ELSE @,
              !.delivered = @ \o <<line>>]

deliverLine(out, line) ==
  IF out.lineCallback
    THEN [out EXCEPT !.called = @ \o <<line>>, !.delivered = @ \o <<line>>]
    ELSE LET q == out.pendingLines \o <<line>> IN
         [out EXCEPT !.pushed = @ \o <<line \o <<"LF">>>>,
                     !.pendingLines = IF Len(q) > MAX_PENDING THEN Tail(q) ELSE q,
                     !.errors = IF Len(q) > MAX_PENDING THEN @ + 1 ELSE @,
                     !.delivered = @ \o <<line>>]

RECURSIVE deliverAll(_, _)
deliverAll(out, lines) ==
  IF lines = <<>> THEN out ELSE deliverAll(deliverLine(out, Head(lines)), Tail(lines))

\* emitCurrentLine(): render, reset, deliver
emitCurrentLine(term, out) ==
  [term |-> reset(term), out |-> deliverLine(out, renderLine(term.cells))]

Strategy == [kind |-> strategyKind, flushTimer |-> flushTimer, emitCallback |-> emitCallback]

Output ==
  [lineCallback |-> lineCallback, pendingLines |-> pendingLines,
   delivered |-> <<>>, pushed |-> <<>>, errors |-> 0, called |-> <<>>]

SetStrategy(st, ts) ==
  /\ flushTimer' = st.flushTimer
  /\ emitCallback' = st.emitCallback
  /\ timers' = ts
  /\ UNCHANGED strategyKind

SetOutput(out) ==
  /\ appended + Len(out.pushed) <= MaxQueue
  /\ appended' = appended + Len(out.pushed)
  /\ pendingLines' = out.pendingLines
  /\ delivered' = out.delivered
  /\ pushed' = out.pushed
  /\ errorEvents' = out.errors
  /\ thrown' = "none"
  /\ called' = out.called
  /\ queueBefore' = pendingLines
  /\ polled' = NoPoll
  /\ UNCHANGED lineCallback

\* the chunk cut after each newline; what follows the last newline is dropped
RECURSIVE LinePieces(_)
LinePieces(chunk) ==
  LET e == SkipWhile(chunk, 1, {c \in {chunk[i] : i \in 1..Len(chunk)} : c # "LF"}) IN
  IF e > Len(chunk) THEN <<>>
  ELSE <<SubSeq(chunk, 1, e)>> \o LinePieces(SubSeq(chunk, e + 1, Len(chunk)))

\* each piece written on its own to a terminal without callback, rendered, reset
RECURSIVE SegmentLines(_, _)
SegmentLines(t, pieces) ==
  IF pieces = <<>> THEN <<>>
  ELSE LET r == write(t, Head(pieces), "none")
       IN  <<renderLine(r.term.cells)>> \o SegmentLines(reset(r.term), Tail(pieces))

\* the history after a handler that took the chunk and emitted the lines
Recorded(h, chunk, lines, fired, end) ==
  IF ~h.kept THEN h
  ELSE [h EXCEPT !.input = @ \o chunk, !.lines = @ \o lines,
                 !.fired = @ \/ fired, !.ended = @ \/ end]

\* _transform(chunk), after write() returned r and onWrite() returned ow
Transformed(chunk, r, ow, fin) ==
  /\ ~ended
  /\ WithinBounds(r.term)
  /\ history.kept => Len(history.input) + Len(chunk) <= MaxInput
  /\ history' = Recorded(history, chunk, fin.out.delivered, FALSE, FALSE)
  /\ SetTerminal(fin.term)
  /\ SetStrategy(ow.st, ow.timers)
  /\ SetOutput(fin.out)
  /\ UNCHANGED ended
  /\ lastState' = r.state
  /\ emitted' = r.lines
  /\ refLines' = SegmentLines(Terminal, LinePieces(chunk))
  /\ postFlush' = IF ~ow.result THEN "none"
                  ELSE IF hasContent(r.term) THEN "content" ELSE "empty"
  /\ lastFired' = NoFire
  /\ gen' = 1 - gen
  /\ fires' = 0
  /\ armedBefore' = (timers # {})
  /\ UNCHANGED <<alphabet, pureVars, before, splitRuns, jumped, sgrReset, lastWrite>>

\* if (shouldEmit) this.emitCurrentLine()
TransformDecided(chunk, r, ow, out1) ==
  Transformed(chunk, r, ow,
              IF ow.result THEN emitCurrentLine(r.term, out1)
              ELSE [term |-> r.term, out |-> out1])

\* const shouldEmit = this.strategy.onWrite(this.terminal, state)
TransformWrote(chunk, r) ==
  TransformDecided(chunk, r, onWrite(Strategy, timers, r.term, r.state),
                   deliverAll(Output, r.lines))

\* _transform(chunk): const state = this.terminal.write(chunk), its line-ready
\* callbacks included
Transform(chunk) == TransformWrote(chunk, write(Terminal, chunk, "emit"))

\* a timer of the host expires and runs the callback the strategy gave it
TimerFire(t) ==
  LET fin == IF emitCallback THEN emitCurrentLine(Terminal, Output)
             ELSE [term |-> Terminal, out |-> Output]
  IN  /\ t \in timers
      /\ t.elapsed >= t.delay
      /\ timers' = afterFiring(timers, t)
      /\ SetTerminal(fin.term)
      /\ SetOutput(fin.out)
      /\ lastFired' = [fired |-> TRUE, delay |-> t.delay, elapsed |-> t.elapsed]
      /\ fires' = Min(fires + 1, 2)
      /\ emitted' = <<>>
      /\ refLines' = <<>>
      /\ postFlush' = "none"
      /\ history' = Recorded(history, <<>>, fin.out.delivered, TRUE, FALSE)
      /\ UNCHANGED <<strategyKind, flushTimer, emitCallback, ended, gen, lastState, armedBefore,
                     alphabet, pureVars, before, splitRuns, jumped, sgrReset, lastWrite>>

\* time passes
Tick ==
  /\ \E t \in timers : t.elapsed < t.delay
  /\ timers' = {[t EXCEPT !.elapsed = Min(t.delay, @ + TickMs)] : t \in timers}
  /\ UNCHANGED <<termVars, alphabet, pureVars, obsVars, strategyKind, flushTimer, emitCallback,
                 xfVars, xfObsVars>>

\* _flush(): the stream ends
Flush ==
  LET f   == strategyFlush(Strategy, timers)
      fin == IF f.result /\ hasContent(Terminal) THEN emitCurrentLine(Terminal, Output)
             ELSE [term |-> Terminal, out |-> Output]
      d   == strategyDispose(f.st, f.timers)
  IN  /\ ~ended
      /\ SetTerminal(dispose(fin.term))
      /\ SetStrategy(d.st, d.timers)
      /\ SetOutput(fin.out)
      /\ ended' = TRUE
      /\ lastState' = NoWrite
      /\ emitted' = <<>>
      /\ refLines' = <<>>
      /\ postFlush' = IF hasContent(Terminal) THEN "endContent" ELSE "endEmpty"
      /\ history' = Recorded(history, <<>>, fin.out.delivered, FALSE, TRUE)
      /\ lastFired' = NoFire
      /\ gen' = 1 - gen
      /\ fires' = 0
      /\ armedBefore' = (timers # {})
      /\ UNCHANGED <<alphabet, pureVars, before, splitRuns, jumped, sgrReset, lastWrite>>

\* destroy()
Destroy ==
  LET d == strategyDispose(Strategy, timers)
  IN  /\ ~ended
      /\ SetTerminal(dispose(Terminal))
      /\ SetStrategy(d.st, d.timers)
      /\ pendingLines' = <<>>
      /\ delivered' = <<>>
      /\ pushed' = <<>>
      /\ ended' = TRUE
      /\ lastState' = NoWrite
      /\ emitted' = <<>>
      /\ refLines' = <<>>
      /\ postFlush' = "none"
      /\ lastFired' = NoFire
      /\ gen' = 1 - gen
      /\ fires' = 0
      /\ armedBefore' = FALSE
      /\ history' = history
      /\ errorEvents' = 0
      /\ thrown' = "none"
      /\ called' = <<>>
      /\ queueBefore' = pendingLines
      /\ polled' = NoPoll
      /\ UNCHANGED <<lineCallback, appended, alphabet, pureVars, before, splitRuns, jumped, sgrReset, lastWrite>>

PlainAlphabet == {"a", "LF", "CR", "BS"}

EraseAlphabet == {"a", "LF", "ESC", "[", "K"}

XfAlphabets == {PlainAlphabet, EraseAlphabet}

StrategyKinds == {"Immediate", "Timeout", "Stateful"}

\* new TerminalTransform({ strategy }), then onLine(callback)
Init ==
  /\ InitTerminal(XfAlphabets)
  /\ strategyKind \in StrategyKinds
  /\ flushTimer = 0
  /\ emitCallback = (strategyKind \in TimeoutKinds)
  /\ timers = {}
  /\ lineCallback = TRUE
  /\ pendingLines = <<>>
  /\ ended = FALSE
  /\ delivered = <<>>
  /\ pushed = <<>>
  /\ refLines = <<>>
  /\ postFlush = "none"
  /\ lastFired = NoFire
  /\ gen = 0
  /\ fires = 0
  /\ armedBefore = FALSE
  /\ errorEvents = 0
  /\ thrown = "none"
  /\ appended = 0
  /\ called = <<>>
  /\ queueBefore = <<>>
  /\ polled = NoPoll
  /\ history = NoHistory

Next ==
  \/ \E chunk \in Chunks(alphabet) : Transform(chunk)
  \/ \E t \in timers : TimerFire(t)
  \/ Tick
  \/ Flush
  \/ Destroy

Spec == Init /\ [][Next]_vars

\* the host's event loop lets time pass and runs the timers that are due
FairSpec == Spec /\ WF_vars(Tick) /\ WF_vars(\E t \in timers : TimerFire(t))

(* The adapter keeping the whole input and every 'line' event of the run *)

ChunkAlphabet == {"a", "LF", "CR"}

ChunkInit ==
  /\ InitTerminal({ChunkAlphabet})
  /\ strategyKind \in StrategyKinds
  /\ flushTimer = 0
  /\ emitCallback = (strategyKind \in TimeoutKinds)
  /\ timers = {}
  /\ lineCallback = TRUE
  /\ pendingLines = <<>>
  /\ ended = FALSE
  /\ delivered = <<>>
  /\ pushed = <<>>
  /\ refLines = <<>>
  /\ postFlush = "none"
  /\ lastFired = NoFire
  /\ gen = 0
  /\ fires = 0
  /\ armedBefore = FALSE
  /\ errorEvents = 0
  /\ thrown = "none"
  /\ appended = 0
  /\ called = <<>>
  /\ queueBefore = <<>>
  /\ polled = NoPoll
  /\ history = [kept |-> TRUE, input |-> <<>>, lines |-> <<>>, fired |-> FALSE, ended |-> FALSE]

ChunkSpec == ChunkInit /\ [][Next]_vars

-----------------------------------------------------------------------------
(* The adapter with a push callback that throws *)

RECURSIVE Concat(_)
Concat(seqs) == IF seqs = <<>> THEN <<>> ELSE Head(seqs) \o Concat(Tail(seqs))

\* What a handler leaves when the push callback threw in it: nothing more is
\* delivered and the catch block emits 'error'.
Threw(where, out) ==
  /\ pendingLines' = out.pendingLines
  /\ delivered' = out.delivered
  /\ pushed' = out.pushed
  /\ errorEvents' = 1
  /\ thrown' = where
  /\ called' = out.called
  /\ queueBefore' = pendingLines
  /\ polled' = NoPoll
  /\ lastState' = NoWrite
  /\ emitted' = <<>>
  /\ refLines' = <<>>
  /\ postFlush' = "none"
  /\ lastFired' = NoFire
  /\ gen' = 1 - gen
  /\ fires' = 0
  /\ armedBefore' = (timers # {})
  /\ history' = history
  /\ UNCHANGED <<lineCallback, appended, alphabet, pureVars, before, splitRuns, jumped, sgrReset, lastWrite>>

\* _transform(chunk) when the push callback throws at the k-th newline of the
\* chunk. emitCurrentLine has rendered and reset before it calls the callback,
\* and emits no 'line' event for that line; the rest of write() and onWrite
\* are skipped.
ThrowsInWrite(k, r) ==
  /\ ~ended
  /\ lineCallback
  /\ WithinBounds(r.term)
  /\ SetTerminal(r.term)
  /\ Threw("write", deliverAll(Output, SubSeq(r.lines, 1, k - 1)))
  /\ UNCHANGED <<stratVars, ended>>

UpToNewline(chunk, k, pieces) ==
  /\ k <= Len(pieces)
  /\ ThrowsInWrite(k, write(Terminal, Concat(SubSeq(pieces, 1, k)), "emit"))

TransformThrowsInWrite(chunk, k) == UpToNewline(chunk, k, LinePieces(chunk))

\* _transform(chunk) when the push callback throws in the emitCurrentLine that
\* follows onWrite returning true.
ThrowsInFlush(r, ow) ==
  /\ ~ended
  /\ lineCallback
  /\ ow.result
  /\ WithinBounds(r.term)
  /\ SetTerminal(reset(r.term))
  /\ SetStrategy(ow.st, ow.timers)
  /\ Threw("flush", deliverAll(Output, r.lines))
  /\ UNCHANGED ended

AfterWrite(r) == ThrowsInFlush(r, onWrite(Strategy, timers, r.term, r.state))

TransformThrowsInFlush(chunk) == AfterWrite(write(Terminal, chunk, "emit"))

\* _flush() when the push callback throws in the final emitCurrentLine: both
\* dispose calls are skipped and the catch block emits 'error'.
FlushThrows ==
  LET f == strategyFlush(Strategy, timers)
  IN  /\ ~ended
      /\ lineCallback
      /\ f.result /\ hasContent(Terminal)
      /\ SetTerminal(reset(Terminal))
      /\ SetStrategy(f.st, f.timers)
      /\ Threw("end", Output)
      /\ ended' = TRUE

ErrAlphabet == {"a", "LF", "ESC", "["}

\* new TerminalTransform({ strategy }), then onLine(a callback that may throw)
ErrInit ==
  /\ InitTerminal({ErrAlphabet})
  /\ strategyKind \in StrategyKinds
  /\ flushTimer = 0
  /\ emitCallback = (strategyKind \in TimeoutKinds)
  /\ timers = {}
  /\ lineCallback = TRUE
  /\ pendingLines = <<>>
  /\ ended = FALSE
  /\ delivered = <<>>
  /\ pushed = <<>>
  /\ refLines = <<>>
  /\ postFlush = "none"
  /\ lastFired = NoFire
  /\ gen = 0
  /\ fires = 0
  /\ armedBefore = FALSE
  /\ errorEvents = 0
  /\ thrown = "none"
  /\ appended = 0
  /\ called = <<>>
  /\ queueBefore = <<>>
  /\ polled = NoPoll
  /\ history = NoHistory

ErrNext ==
  \/ \E chunk \in Chunks(alphabet) : Transform(chunk)
  \/ \E chunk \in Chunks(alphabet) : \E k \in 1..MaxChunkLen : TransformThrowsInWrite(chunk, k)
  \/ \E chunk \in Chunks(alphabet) : TransformThrowsInFlush(chunk)
  \/ \E t \in timers : TimerFire(t)
  \/ Tick
  \/ Flush
  \/ FlushThrows
  \/ Destroy

ErrSpec == ErrInit /\ [][ErrNext]_vars

-----------------------------------------------------------------------------
(* The adapter's delivery surfaces: push callback, polling queue, stream *)

\* A polling operation's frame: it touches neither terminal nor strategy
PollFrame ==
  /\ queueBefore' = pendingLines
  /\ UNCHANGED <<termVars, alphabet, pureVars, obsVars, stratVars, lineCallback, ended, delivered,
                 pushed, refLines, postFlush, lastFired, gen, fires, armedBefore, history,
                 errorEvents, thrown, appended, called>>

\* The array getPendingLines returns: a copy, not the queue itself
getPendingLinesAlias == [op |-> "get", result |-> pendingLines, alias |-> TRUE]

getPendingLines == [op |-> "get", result |-> pendingLines, alias |-> FALSE]

\* getPendingLines()
GetPendingLines ==
  /\ polled' = getPendingLines
  /\ UNCHANGED pendingLines
  /\ PollFrame

\* consumePendingLines(): the old array is returned, a new one installed
ConsumePendingLines ==
  /\ polled' = [op |-> "consume", result |-> pendingLines, alias |-> FALSE]
  /\ pendingLines' = <<>>
  /\ PollFrame

\* clearPendingLines()
ClearPendingLines ==
  /\ polled' = [op |-> "clear", result |-> <<>>, alias |-> FALSE]
  /\ pendingLines' = <<>>
  /\ PollFrame

\* the caller pushes a line onto the array the last operation returned
MutateReturned ==
  /\ polled.op \in {"get", "consume"}
  /\ polled' = [polled EXCEPT !.op = "mutated", !.result = Append(@, <<"a">>)]
  /\ pendingLines' = IF polled.alias THEN Append(pendingLines, <<"a">>) ELSE pendingLines
  /\ PollFrame

\* onLine(callback)
OnLine ==
  /\ ~lineCallback
  /\ lineCallback' = TRUE
  /\ polled' = [op |-> "onLine"]
  /\ queueBefore' = pendingLines
  /\ UNCHANGED <<termVars, alphabet, pureVars, obsVars, stratVars, pendingLines, ended, delivered,
                 pushed, refLines, postFlush, lastFired, gen, fires, armedBefore, history,
                 errorEvents, thrown, appended, called>>

QueueAlphabet == {"a", "LF"}

\* the queue after MAX_PENDING - 1 lines were flushed and none consumed: a blank
\* line, then lines "a"
Backlog == [i \in 1..(MAX_PENDING - 1) |-> IF i = 1 THEN <<>> ELSE <<"a">>]

\* new TerminalTransform({ strategy }), read through the stream or by polling
QueueInit ==
  /\ InitTerminal({QueueAlphabet})
  /\ strategyKind \in {"Immediate", "Timeout"}
  /\ flushTimer = 0
  /\ emitCallback = (strategyKind \in TimeoutKinds)
  /\ timers = {}
  /\ lineCallback = FALSE
  /\ pendingLines \in {<<>>, Backlog}
  /\ ended = FALSE
  /\ delivered = <<>>
  /\ pushed = <<>>
  /\ refLines = <<>>
  /\ postFlush = "none"
  /\ lastFired = NoFire
  /\ gen = 0
  /\ fires = 0
  /\ armedBefore = FALSE
  /\ errorEvents = 0
  /\ thrown = "none"
  /\ appended = 0
  /\ called = <<>>
  /\ queueBefore = pendingLines
  /\ polled = NoPoll
  /\ history = NoHistory

QueueNext ==
  \/ \E chunk \in Chunks(alphabet) : Transform(chunk)
  \/ \E t \in timers : TimerFire(t)
  \/ Tick
  \/ Flush
  \/ Destroy
  \/ OnLine
  \/ GetPendingLines
  \/ ConsumePendingLines
  \/ ClearPendingLines
  \/ MutateReturned

QueueSpec == QueueInit /\ [][QueueNext]_vars

-----------------------------------------------------------------------------
(* SgrComposer called on its own *)

ColorSamples ==
  {Unset, Set(0), Set(7), Set(8), Set(15), Set(16), Set(255),
   Set(PackRgb(0, 0, 0)), Set(PackRgb(1, 2, 3)), Set(PackRgb(255, 128, 64))}

BoolSamples == {Unset, Set(TRUE), Set(FALSE)}

BoolFields == SgrFields \ {"fg", "bg"}

\* attribute records: every combination of the booleans without colors, and
\* every pair of colors with bold and blink
AttrSamples ==
  {a \in [SgrFields -> BoolSamples] : a.fg = Unset /\ a.bg = Unset}
  \cup {[EmptySgr EXCEPT !.fg = c.fg, !.bg = c.bg, !.bold = c.bold, !.blink = c.blink] :
          c \in [fg : ColorSamples, bg : ColorSamples, bold : BoolSamples, blink : BoolSamples]}

ParamSamples == {0, 1, 2, 5, 31, 38, 48}

ParamLists == UNION {[1..n -> ParamSamples] : n \in 0..MaxParams}

\* the parameters of the sequence a string holds, as StreamingTerminal.write
\* extracts them: AnsiParser.parseNext, then CsiHandler.parse
SequenceParams(str) ==
  IF str = <<>> THEN <<>>
  ELSE LET seq == parseNext(str, 1) IN CsiParse(seq.params, seq.cmd).params

\* SgrComposer.compose({}, SgrComposer.parse(params of SgrComposer.toSequence(a)))
RoundTripOf(a) == compose(EmptySgr, SgrParse(SequenceParams(toSequence(a))))

RoundTrip ==
  /\ sgrInput.kind = "attrs"
  /\ sgrOutput = NoCall
  /\ sgrOutput' = [kind |-> "attrs", value |-> RoundTripOf(sgrInput.value)]
  /\ UNCHANGED <<termVars, alphabet, sgrInput, obsVars, stratVars, xfVars, xfObsVars>>

\* SgrComposer.parse(params)
Parse ==
  /\ sgrInput.kind = "params"
  /\ sgrOutput = NoCall
  /\ sgrOutput' = [kind |-> "attrs", value |-> SgrParse(sgrInput.value)]
  /\ UNCHANGED <<termVars, alphabet, sgrInput, obsVars, stratVars, xfVars, xfObsVars>>

\* bases for compose: nothing set, everything set true, everything set false
BaseSamples ==
  {EmptySgr,
   [f \in SgrFields |-> IF f = "fg" THEN Set(1) ELSE IF f = "bg" THEN Set(PackRgb(1, 2, 3)) ELSE Set(TRUE)],
   [f \in SgrFields |-> IF f = "fg" THEN Set(255) ELSE IF f = "bg" THEN Set(8) ELSE Set(FALSE)],
   [EmptySgr EXCEPT !.fg = Set(1), !.dim = Set(TRUE)]}

ComposePairs ==
  [base : BaseSamples, overlay : AttrSamples] \cup [base : AttrSamples, overlay : {EmptySgr}]

\* SgrComposer.compose(base, overlay)
Compose ==
  /\ sgrInput.kind = "compose"
  /\ sgrOutput = NoCall
  /\ sgrOutput' = [kind |-> "attrs",
                   value |-> compose(sgrInput.value.base, sgrInput.value.overlay)]
  /\ UNCHANGED <<termVars, alphabet, sgrInput, obsVars, stratVars, xfVars, xfObsVars>>

\* SgrComposer.toSequence(attrs)
ToSequence ==
  /\ sgrInput.kind = "sequence"
  /\ sgrOutput = NoCall
  /\ sgrOutput' = [kind |-> "string", value |-> toSequence(sgrInput.value)]
  /\ UNCHANGED <<termVars, alphabet, sgrInput, obsVars, stratVars, xfVars, xfObsVars>>

ShortParamLists == UNION {[1..n -> ParamSamples] : n \in 0..2}

\* SgrComposer.toSequence(SgrComposer.parse(params))
ParseToSequence ==
  /\ sgrInput.kind = "regenerate"
  /\ sgrOutput = NoCall
  /\ sgrOutput' = [kind |-> "string", value |-> toSequence(SgrParse(sgrInput.value))]
  /\ UNCHANGED <<termVars, alphabet, sgrInput, obsVars, stratVars, xfVars, xfObsVars>>

SgrInit ==
  /\ FreshTerminal
  /\ alphabet = {}
  /\ NoAdapter
  /\ sgrInput \in [kind : {"attrs"}, value : AttrSamples]
                    \cup [kind : {"params"}, value : ParamLists]
                    \cup [kind : {"compose"}, value : ComposePairs]
                    \cup [kind : {"sequence"}, value : AttrSamples]
                    \cup [kind : {"regenerate"}, value : ShortParamLists]
  /\ sgrOutput = NoCall

SgrNext == RoundTrip \/ Parse \/ Compose \/ ToSequence \/ ParseToSequence

SgrSpec == SgrInit /\ [][SgrNext]_vars

-----------------------------------------------------------------------------
(* Claims about the terminal *)

\* C1: split-chunk idempotence: write(c1) then write(c2) leaves the same cells,
\* cursor and active SGR and the same line-ready emissions as write(c1 + c2),
\* for every split of the input just written.
C1_SplitChunkIdempotence ==
  \A run \in splitRuns : run = Outcome(Terminal, emitted)

\* C2 (as claimed): after every write or reset, 0 <= cursor <= number of cells.
C2_CursorWithinCells == 0 <= cursor /\ cursor <= Len(cells)

\* C2 (amended): after every write or reset 0 <= cursor, and cursor <= number of
\* cells as long as no cursor-positioning sequence (CSI C, G, `, u or ESC 8) was
\* processed since the last reset.
C2_CursorWithinCellsUnlessJumped ==
  0 <= cursor /\ (~jumped => cursor <= Len(cells))

C2_Witness ==
  ~jumped /\ lastState # NoWrite /\ Len(cells) > 0 /\ cursor = Len(cells)

\* C3: once CSI 0 m is the last SGR sequence processed, the active SGR is the
\* empty record.
C3_Sgr0ResetsActiveSgr == sgrReset => activeSgr = EmptySgr

\* C4 (as claimed): a write of plain text (no control character, no ESC) leaves
\* activeSgr and savedCursor as they were, whatever the terminal had buffered.
C4_PlainWriteKeepsSgrAndSavedCursor ==
  before.plain => activeSgr = before.activeSgr /\ savedCursor = before.savedCursor

\* C4 (amended): a write of plain text into a terminal with no buffered
\* incomplete sequence leaves activeSgr and savedCursor as they were.
C4_PlainWriteKeepsSgrUnlessBuffered ==
  (before.plain /\ ~before.buffered)
    => activeSgr = before.activeSgr /\ savedCursor = before.savedCursor

C4_Witness ==
  /\ before.plain /\ ~before.buffered /\ before.wrote
  /\ activeSgr # EmptySgr \/ savedCursor > 0
  /\ cells # <<>>

-----------------------------------------------------------------------------
(* Claims about the strategies and the adapter *)

\* C5: with a timeout strategy, a chunk with a newline makes on_write return
\* true and leaves no timer pending, and no timer fires until the next chunk:
\* the timer armed before the newline never invokes the emit callback.
C5_NewlineCancelsTimer ==
  (strategyKind \in TimeoutKinds /\ lastState # NoWrite /\ lastState.hadNewline) =>
    /\ postFlush # "none"
    /\ timers = {}
    /\ lastFired = NoFire

C5_Witness ==
  /\ strategyKind \in TimeoutKinds
  /\ lastState # NoWrite /\ lastState.hadNewline
  /\ armedBefore
  /\ timers = {}

\* C6: after on_write returned true for a chunk, the adapter delivers a line
\* only if the terminal has content at that moment: it never flushes a terminal
\* of zero cells on that path.
C6_FlushOnlyWithContent == postFlush # "empty"

C8_AtMostOneTimer ==
  /\ Cardinality(timers) <= 1
  /\ (strategyKind \in TimeoutKinds /\ lastState # NoWrite /\ ~lastState.hadNewline
        /\ lastFired = NoFire) =>
       (timers # {} <=> (cells # <<>> /\ emitCallback))

C8_Witness ==
  /\ strategyKind \in TimeoutKinds
  /\ lastState # NoWrite /\ ~lastState.hadNewline
  /\ armedBefore
  /\ Cardinality(timers) = 1
  /\ \A t \in timers : t.elapsed = 0

HeldPartialLine ==
  /\ strategyKind \in TimeoutKinds
  /\ lastState # NoWrite /\ ~lastState.hadNewline
  /\ cells # <<>>
  /\ lastFired = NoFire

C10_TimerEventuallyFiresOnce ==
  /\ \A g \in {0, 1} :
       (HeldPartialLine /\ gen = g) ~>
         (gen # g \/ (lastFired # NoFire /\ fires = 1 /\ Len(delivered) = 1))
  /\ [](fires <= 1)

C10_Witness ==
  /\ strategyKind \in TimeoutKinds
  /\ lastFired # NoFire
  /\ fires = 1
  /\ Len(delivered) = 1 /\ delivered[1] # <<>>
  /\ cells = <<>>

\* C11: at stream end the pending timer is cancelled, one final line is
\* delivered exactly when the terminal had content, strategy and terminal are
\* disposed, and afterwards no timer is pending or fires and nothing more is
\* delivered.
C11_StreamEndFlushesOnceAndDisposes ==
  (ended /\ postFlush \in {"endContent", "endEmpty"}) =>
    /\ timers = {}
    /\ ~emitCallback
    /\ lastFired = NoFire
    /\ cells = <<>> /\ activeSgr = EmptySgr /\ incompleteSequence = <<>>
    /\ Len(delivered) = (IF postFlush = "endContent" THEN 1 ELSE 0)

C11_Witness ==
  /\ ended
  /\ postFlush = "endContent"
  /\ armedBefore
  /\ timers = {}
  /\ Len(delivered) = 1 /\ delivered[1] # <<>>

\* C12: when the push callback throws while a chunk is processed or during the
\* end-of-stream flush, one error is surfaced to the host and both the strategy
\* and the terminal are disposed: no timer stays pending, the emit callback is
\* dropped, and the terminal is cleared.
C12_ErrorDisposesBoth ==
  thrown # "none" =>
    /\ errorEvents = 1
    /\ timers = {} /\ ~emitCallback
    /\ cells = <<>> /\ activeSgr = EmptySgr /\ incompleteSequence = <<>>

-----------------------------------------------------------------------------
(* Claims about the delivery surfaces *)

LastN(seq, n) == IF Len(seq) <= n THEN seq ELSE SubSeq(seq, Len(seq) - n + 1, Len(seq))

\* the last step was a handler that flushes (a chunk, a timer, the stream end)
AfterHandler ==
  /\ polled = NoPoll
  /\ thrown = "none"
  /\ ended => postFlush \in {"endContent", "endEmpty"}

\* C13: the polling queue never holds more than MAX_PENDING lines; a handler
\* that flushes n lines beyond the limit signals n errors and leaves the most
\* recent MAX_PENDING lines in emission order.
C13_QueueHoldsMostRecent ==
  /\ Len(pendingLines) <= MAX_PENDING
  /\ (AfterHandler /\ ~lineCallback) =>
       LET all == queueBefore \o delivered IN
       /\ pendingLines = LastN(all, MAX_PENDING)
       /\ errorEvents = (IF Len(all) > MAX_PENDING THEN Len(all) - MAX_PENDING ELSE 0)

C13_Witness ==
  /\ AfterHandler /\ ~lineCallback
  /\ errorEvents = 1
  /\ Len(queueBefore) = MAX_PENDING /\ queueBefore[1] = <<>>
  /\ Len(pendingLines) = MAX_PENDING /\ pendingLines[1] = <<"a">>
  /\ pendingLines[MAX_PENDING] = delivered[Len(delivered)]

\* C14: with a push callback set, every flush calls it with the rendered line
\* and leaves the polling queue and the pushed stream untouched; without one,
\* every flush appends the line to the queue and pushes line + newline; either
\* way there is one 'line' event per flush.
C14_OneSurfacePerFlush ==
  AfterHandler =>
    LET flushes == Len(emitted)
                   + (IF postFlush \in {"content", "empty", "endContent"} THEN 1 ELSE 0)
                   + (IF lastFired # NoFire THEN 1 ELSE 0)
    IN  /\ Len(delivered) = flushes
        /\ SubSeq(delivered, 1, Len(emitted)) = emitted
        /\ IF lineCallback
             THEN /\ called = delivered
                  /\ pushed = <<>>
                  /\ pendingLines = queueBefore
             ELSE /\ called = <<>>
                  /\ pushed = [i \in 1..Len(delivered) |-> delivered[i] \o <<"LF">>]
                  /\ pendingLines = LastN(queueBefore \o delivered, MAX_PENDING)

C14_Witness ==
  /\ AfterHandler
  /\ lineCallback
  /\ Len(called) = 2 /\ called[1] # <<>>
  /\ pendingLines # <<>> /\ pendingLines = queueBefore

PollOps == {"get", "consume", "clear", "mutated"}

\* C15: get_pending_lines returns a copy of the queue and leaves the queue as
\* it was, also when the caller changes the copy; consume_pending_lines returns
\* the queued lines in order and leaves the queue empty; clear_pending_lines
\* leaves it empty; none of them changes terminal or strategy.
C15_PollingOperations ==
  /\ [](/\ polled.op = "get" => (polled.result = queueBefore /\ pendingLines = queueBefore)
        /\ polled.op = "mutated" => pendingLines = queueBefore
        /\ polled.op = "consume" => (polled.result = queueBefore /\ pendingLines = <<>>)
        /\ polled.op = "clear" => pendingLines = <<>>)
  /\ [][(polled' # polled /\ polled'.op \in PollOps) => UNCHANGED <<termVars, stratVars>>]_vars

C15_Witness ==
  /\ polled.op = "mutated"
  /\ Len(queueBefore) = 2
  /\ pendingLines = queueBefore
  /\ Len(polled.result) = 3
  /\ cells # <<>> /\ timers # {}

-----------------------------------------------------------------------------
(* Claims about reset, dispose, the immediate strategy and SGR records *)

\* C16: reset() clears the cells and sets the cursor to 0 and leaves the active
\* SGR, the saved cursor and the incomplete-sequence buffer as they were.
C16_ResetKeepsSgrSavedAndBuffer ==
  [][lastState' = NoWrite =>
       /\ cells' = <<>> /\ cursor' = 0
       /\ activeSgr' = activeSgr
       /\ savedCursor' = savedCursor
       /\ incompleteSequence' = incompleteSequence]_vars

C16_Witness ==
  /\ lastState = NoWrite
  /\ cells = <<>> /\ cursor = 0
  /\ activeSgr # EmptySgr
  /\ incompleteSequence # <<>>

\* C17: after dispose() the terminal has no cells, cursor 0, an empty active
\* SGR and an empty incomplete-sequence buffer.
C17_DisposeClearsEverything ==
  lastState = Disposed =>
    /\ cells = <<>> /\ cursor = 0
    /\ activeSgr = EmptySgr
    /\ incompleteSequence = <<>>

\* C18: the immediate strategy never schedules a timer and never runs an emit
\* callback; its on_write returns false for every chunk, with or without
\* newline, and its flush returns true, so the stream end flushes what is left.
C18_ImmediateNeverSchedules ==
  strategyKind = "Immediate" =>
    /\ timers = {} /\ flushTimer = 0
    /\ lastFired = NoFire
    /\ postFlush \notin {"content", "empty"}
    /\ lastState # NoWrite => delivered = emitted
    /\ (ended /\ postFlush = "endContent") => Len(delivered) = 1

C18_Witness ==
  /\ strategyKind = "Immediate"
  /\ lastState # NoWrite /\ lastState.hadNewline
  /\ postFlush = "none"
  /\ Len(delivered) = 1
  /\ cells # <<>>

\* C19: for an attribute record with valid colors, parsing the parameters of
\* its to_sequence and composing them onto the empty record gives back its fg,
\* its bg and exactly its true booleans.
C19_SgrRoundTrip ==
  (sgrInput.kind = "attrs" /\ sgrOutput # NoCall) =>
    LET a == sgrInput.value
        b == sgrOutput.value
    IN  /\ b.fg = a.fg
        /\ b.bg = a.bg
        /\ \A f \in BoolFields : (b[f] = Set(TRUE)) <=> (a[f] = Set(TRUE))

C19_Witness ==
  /\ sgrInput.kind = "attrs" /\ sgrOutput # NoCall
  /\ sgrInput.value.fg = Set(PackRgb(255, 128, 64))
  /\ sgrInput.value.bg = Set(8)
  /\ sgrInput.value.bold = Set(TRUE)
  /\ sgrInput.value.blink = Set(FALSE)
  /\ sgrOutput.value.fg = Set(PackRgb(255, 128, 64))
  /\ sgrOutput.value.blink = Unset

\* whether the scan of a parameter list reaches a 0 as a code: sub-parameters
\* consumed by a complete 38;5;n, 48;5;n, 38;2;r;g;b or 48;2;r;g;b are skipped
RECURSIVE ZeroScanned(_, _)
ZeroScanned(params, i) ==
  IF i > Len(params) THEN FALSE
  ELSE IF params[i] = 0 THEN TRUE
  ELSE IF params[i] \in {38, 48} /\ i + 2 <= Len(params) /\ params[i + 1] = 5
    THEN ZeroScanned(params, i + 3)
  ELSE IF params[i] \in {38, 48} /\ i + 4 <= Len(params) /\ params[i + 1] = 2
    THEN ZeroScanned(params, i + 5)
  ELSE ZeroScanned(params, i + 1)

\* C20: SgrComposer.parse returns the empty record whenever it scans a 0 as a
\* code, whatever comes before and after it; a 0 consumed as a sub-parameter
\* of 38 or 48 does not count.
C20_ZeroParsesToEmpty ==
  (sgrInput.kind = "params" /\ sgrOutput # NoCall /\ ZeroScanned(sgrInput.value, 1)) =>
    sgrOutput.value = EmptySgr

C20_Witness ==
  /\ sgrInput.kind = "params" /\ sgrOutput # NoCall
  /\ sgrInput.value = <<1, 0, 31>>
  /\ sgrOutput.value = EmptySgr

C20_WitnessSubParameter ==
  /\ sgrInput.kind = "params" /\ sgrOutput # NoCall
  /\ sgrInput.value = <<38, 5, 0>>
  /\ sgrOutput.value.fg = Set(0)

\* C21: compose(base, overlay) is a per-field overlay: each of the ten fields
\* of the result is overlay's value when overlay sets it (an explicit false
\* included) and base's value otherwise; so compose(a, {}) = a = compose({}, a).
C21_ComposeIsPerFieldOverlay ==
  (sgrInput.kind = "compose" /\ sgrOutput # NoCall) =>
    LET base    == sgrInput.value.base
        overlay == sgrInput.value.overlay
        out     == sgrOutput.value
    IN  /\ Cardinality(SgrFields) = 10
        /\ \A f \in SgrFields :
             out[f] = IF overlay[f] # Unset THEN overlay[f] ELSE base[f]
        /\ overlay = EmptySgr => out = base
        /\ base = EmptySgr => out = overlay

C21_Witness ==
  /\ sgrInput.kind = "compose" /\ sgrOutput # NoCall
  /\ sgrInput.value.base.bold = Set(TRUE)
  /\ sgrInput.value.base.fg = Set(1)
  /\ sgrInput.value.overlay.bold = Set(FALSE)
  /\ sgrInput.value.overlay.fg = Unset
  /\ sgrInput.value.overlay.bg = Set(8)
  /\ sgrOutput.value.bold = Set(FALSE)
  /\ sgrOutput.value.fg = Set(1)
  /\ sgrOutput.value.bg = Set(8)

\* the code of each boolean attribute, in the order of emission
BoolOrder ==
  <<[f |-> "bold", code |-> 1], [f |-> "dim", code |-> 2], [f |-> "italic", code |-> 3],
    [f |-> "underline", code |-> 4], [f |-> "blink", code |-> 5], [f |-> "inverse", code |-> 7],
    [f |-> "hidden", code |-> 8], [f |-> "strikethrough", code |-> 9]>>

RECURSIVE TrueCodes(_, _)
TrueCodes(a, i) ==
  IF i > Len(BoolOrder) THEN <<>>
  ELSE (IF a[BoolOrder[i].f] = Set(TRUE) THEN <<BoolOrder[i].code>> ELSE <<>>)
       \o TrueCodes(a, i + 1)

\* the narrowest form of a color; first is 30 or 40, bright is 90 or 100,
\* extended is 38 or 48
NarrowestForm(field, first, bright, extended) ==
  IF field = Unset THEN <<>>
  ELSE LET c == field[1] IN
       IF c >= 16777216
         THEN LET rgb == c - 16777216
              IN  <<extended, 2, rgb \div 65536, (rgb \div 256) % 256, rgb % 256>>
       ELSE IF c \in 0..7 THEN <<first + c>>
       ELSE IF c \in 8..15 THEN <<bright + (c - 8)>>
       ELSE <<extended, 5, c>>

RECURSIVE Joined(_)
Joined(codes) ==
  IF codes = <<>> THEN <<>>
  ELSE NumToChars(codes[1]) \o (IF Len(codes) > 1 THEN <<";">> ELSE <<>>) \o Joined(Tail(codes))

C23_ReadmeExample ==
  (sgrInput.kind = "regenerate" /\ sgrOutput # NoCall /\ sgrInput.value = <<31, 1>>) =>
    sgrOutput.value = <<ESC, "[", "3", "1", ";", "1", "m">>

\* an extended color at position k whose sub-parameters the list ends before
\* completing: 38 alone, 38;5, 38;2 with fewer than three values after it
Truncated(params, k) ==
  /\ params[k] \in {38, 48}
  /\ \/ Len(params) = k
     \/ Len(params) = k + 1 /\ params[k + 1] = 5
     \/ Len(params) \in (k + 1)..(k + 3) /\ params[k + 1] = 2

\* whether the scan from position i reaches position k as a code
RECURSIVE Scanned(_, _, _)
Scanned(params, i, k) ==
  IF i > k \/ i > Len(params) THEN FALSE
  ELSE IF i = k THEN TRUE
  ELSE IF params[i] = 0 THEN FALSE
  ELSE IF params[i] \in {38, 48} /\ i + 2 <= Len(params) /\ params[i + 1] = 5
    THEN Scanned(params, i + 3, k)
  ELSE IF params[i] \in {38, 48} /\ i + 4 <= Len(params) /\ params[i + 1] = 2
    THEN Scanned(params, i + 5, k)
  ELSE Scanned(params, i + 1, k)

\* C24: a malformed extended color (38 or 48 with sub-parameters missing)
\* leaves its color attribute unchanged: fg (resp. bg) of the parse result is
\* what the parameters before it made it.
C24_MalformedExtendedColorKeepsAttribute ==
  (sgrInput.kind = "params" /\ sgrOutput # NoCall) =>
    \A k \in 1..Len(sgrInput.value) :
      (Scanned(sgrInput.value, 1, k) /\ Truncated(sgrInput.value, k)) =>
        LET earlier == SgrParse(SubSeq(sgrInput.value, 1, k - 1))
        IN  IF sgrInput.value[k] = 38
              THEN sgrOutput.value.fg = earlier.fg
              ELSE sgrOutput.value.bg = earlier.bg

\* the printable characters of a string, its ANSI sequences removed
RECURSIVE Visible(_, _)
Visible(str, i) ==
  IF i > Len(str) THEN <<>>
  ELSE LET seq == parseNext(str, i)
       IN  (IF seq.type = "printable" THEN <<seq.data>> ELSE <<>>)
           \o Visible(str, i + seq.length)

\* what the cells show: a space for an Empty cell, up to the last glyph
ShownCells(cs) ==
  [i \in 1..LastContentIndex(cs, Len(cs)) |-> IF cs[i].char = "" THEN " " ELSE cs[i].char]

\* the index of the last character of str that is not a space (0 if none)
RECURSIVE LastNonSpace(_, _)
LastNonSpace(str, j) ==
  IF j < 1 THEN 0 ELSE IF str[j] # " " THEN j ELSE LastNonSpace(str, j - 1)

\* C25: the visible result of render_line carries no trailing filler: with its
\* ANSI sequences removed the rendered string does not end with a space, and
\* the spaces that precede a visible non-space character are all kept.
C25_NoTrailingFiller ==
  LET vis   == Visible(renderLine(cells), 1)
      shown == ShownCells(cells)
      keep  == LastNonSpace(shown, Len(shown))
  IN  /\ vis = <<>> \/ vis[Len(vis)] # " "
      /\ Len(vis) >= keep /\ SubSeq(vis, 1, keep) = SubSeq(shown, 1, keep)

IsResetToken(seq) == seq.type = "csi" /\ seq.cmd = "m" /\ seq.params = <<"0">>

\* the position among toks of the n-th printable token (0 if there is none)
RECURSIVE PrintableAt(_, _, _)
PrintableAt(toks, n, i) ==
  IF i > Len(toks) THEN 0
  ELSE IF toks[i].type = "printable"
    THEN IF n = 1 THEN i ELSE PrintableAt(toks, n - 1, i + 1)
  ELSE PrintableAt(toks, n, i + 1)

\* the tokens rendered between the character of cell n and that of cell n + 1
\* (before the first character for n = 0)
Between(toks, n) ==
  LET from == IF n = 0 THEN 0 ELSE PrintableAt(toks, n, 1)
      to   == PrintableAt(toks, n + 1, 1)
  IN  SubSeq(toks, from + 1, to - 1)

\* the attribute record renderLine holds after cell n: the empty record at
\* the start and after an Empty cell
RecordAfter(cs, n) == IF n = 0 \/ cs[n].char = "" THEN EmptySgr ELSE cs[n].sgr

\* C26: render_line emits an SGR transition only where a glyph's record differs
\* from that of the previously rendered cell, emits ESC[0m before an Empty cell
\* that follows styled content, ends with ESC[0m whenever the last rendered
\* cell had a non-empty record, and renders a line with no glyph as the empty
\* string.
C26_SgrTransitionsOnlyOnChange ==
  LET line == renderLine(cells)
      toks == Tokens(line, 1)
      last == LastContentIndex(cells, Len(cells))
      shown == Len(Visible(line, 1))
  IN  /\ last = 0 => line = <<>>
      /\ \A n \in 0..(shown - 1) :
           /\ (cells[n + 1].char # "" /\ cells[n + 1].sgr = RecordAfter(cells, n))
                => Between(toks, n) = <<>>
           /\ (cells[n + 1].char = "" /\ ~isEmpty(RecordAfter(cells, n)))
                => (Len(Between(toks, n)) = 1 /\ IsResetToken(Between(toks, n)[1]))
      /\ (last > 0 /\ ~isEmpty(cells[last].sgr)) => EndsWithReset(line)

C26_Witness ==
  /\ Len(cells) = 4
  /\ cells[1].char = "a" /\ cells[1].sgr.bold = Set(TRUE)
  /\ cells[2].char = "a" /\ cells[2].sgr = cells[1].sgr
  /\ cells[3].char = ""
  /\ cells[4].char = "a" /\ cells[4].sgr.bold = Set(FALSE)
  /\ renderLine(cells) =
       <<ESC, "[", "1", "m", "a", "a">> \o SGR_RESET \o <<" ", "a">> \o SGR_RESET

\* C29: every newline character written triggers the line-ready callback
\* exactly once, whatever escape sequences surround it (an unterminated OSC, a
\* buffered incomplete sequence): in each write the callback runs as many times
\* as the chunk has newlines.
C29_OneCallbackPerNewline ==
  lastWrite.recorded =>
    Len(emitted) = Cardinality({i \in 1..Len(lastWrite.chunk) : lastWrite.chunk[i] = "LF"})

C29_Witness ==
  /\ lastWrite.recorded
  /\ lastWrite.chunk = <<"]", "LF">>
  /\ lastWrite.input = <<ESC, "]", "LF">>
  /\ Len(emitted) = 1

\* a lone ESC, or ESC [ followed by zero or more of 0-9 and ;
IsFragment(str) ==
  \/ str = <<ESC>>
  \/ /\ Len(str) >= 2 /\ str[1] = ESC /\ str[2] = "["
     /\ \A i \in 3..Len(str) : str[i] \in DigitChars \cup {";"}

\* the suffixes of str that are such fragments
FragmentSuffixes(str) ==
  {SubSeq(str, k, Len(str)) : k \in {j \in 1..Len(str) : IsFragment(SubSeq(str, j, Len(str)))}}

\* C30: the incomplete-sequence buffer is empty while a write processes its
\* tokens and, after each write, is either empty, a lone ESC, or ESC [ followed
\* by zero or more of 0-9 and ;; it is non-empty exactly when the prepended
\* chunk ended in such a fragment.
C30_IncompleteBufferShape ==
  /\ incompleteSequence = <<>> \/ IsFragment(incompleteSequence)
  /\ lastWrite.recorded =>
       /\ \A i \in 1..Len(lastWrite.seen) : lastWrite.seen[i] = <<>>
       /\ (incompleteSequence # <<>>) <=> (FragmentSuffixes(lastWrite.input) # {})
       /\ incompleteSequence # <<>> => incompleteSequence \in FragmentSuffixes(lastWrite.input)

C30_Witness ==
  /\ lastWrite.recorded
  /\ lastWrite.chunk = <<"LF", ESC>>
  /\ lastWrite.input = <<ESC, "[", "LF", ESC>>
  /\ lastWrite.seen = << <<>> >>
  /\ incompleteSequence = <<ESC>>

\* the lines of an input written to a fresh terminal in one piece, each
\* rendered when its newline arrives
WholeLines(input) == write(NewTerminal, input, "emit").lines

\* C27: with TimeoutStrategy or StatefulTimeoutStrategy, while no timer has
\* expired the lines delivered are exactly the newline-delimited lines of the
\* concatenated input: text after the last newline is held, and a chunk that
\* ends in a newline delivers no additional empty line.
C27_TimeoutDeliversNewlineLines ==
  (history.kept /\ strategyKind \in TimeoutKinds /\ ~history.fired /\ ~history.ended) =>
    history.lines = WholeLines(history.input)

\* the lines of an input written to a fresh adapter in one chunk, then the
\* stream end
OneChunkLines(input) ==
  LET r == write(NewTerminal, input, "emit")
  IN  r.lines \o (IF hasContent(r.term) THEN <<renderLine(r.term.cells)>> ELSE <<>>)

\* C28: for input without ESC, the lines TerminalTransform delivers with
\* ImmediateStrategy, the final flush at stream end included, depend only on
\* the concatenated input and not on how it was split into chunks.
C28_ImmediateChunkingIndependent ==
  (history.kept /\ strategyKind = "Immediate" /\ history.ended) =>
    history.lines = OneChunkLines(history.input)

C28_Witness ==
  /\ history.kept /\ strategyKind = "Immediate" /\ history.ended
  /\ history.input = <<"a", "CR", "LF", "a">>
  /\ history.lines = << <<"a">>, <<"a">> >>

-----------------------------------------------------------------------------
(* Claims about editing the line: cursor motion, erasure, save and restore *)

\* whether some sequence of toks satisfies the test P
SomeToken(toks, P(_)) == \E i \in 1..Len(toks) : P(toks[i])

IsControl(seq, char) == seq.type = "control" /\ seq.data = char

IsCsi(seq, cmds) == seq.type = "csi" /\ seq.cmd \in cmds

IsEscape(seq, which) == seq.type = "escape" /\ seq.data \in which

IsNewline(seq) == IsControl(seq, "LF")

IsCarriageReturn(seq) == IsControl(seq, "CR")

IsCursorMovement(seq) ==
  \/ IsControl(seq, "BS")
  \/ IsEscape(seq, {"7", "8"})
  \/ IsCsi(seq, {"G", "GRAVE", "C", "D", "s", "u"})

IsErasure(seq) == IsCsi(seq, {"K", "X", "P", "@"})

\* C31: the TerminalState write returns has each flag equal to the OR over the
\* sequences processed in that call only (hadNewline for LF, hadCarriageReturn
\* for CR, hadCursorMovement for backspace, ESC 7/8 and CSI G ` C D s u,
\* hadErasure for CSI K X P @), and its cursorPosition and cellCount are the
\* terminal's values when write returns.
C31_StateIsOfThisWrite ==
  lastWrite.recorded =>
    LET toks == Tokens(lastWrite.input, 1) IN
    /\ lastState.hadNewline = SomeToken(toks, IsNewline)
    /\ lastState.hadCarriageReturn = SomeToken(toks, IsCarriageReturn)
    /\ lastState.hadCursorMovement = SomeToken(toks, IsCursorMovement)
    /\ lastState.hadErasure = SomeToken(toks, IsErasure)
    /\ lastState.cursorPosition = cursor
    /\ lastState.cellCount = Len(cells)

\* a carriage return and a glyph written after an earlier write jumped the
\* cursor: the state reports the carriage return and no cursor movement
C31_Witness ==
  /\ lastWrite.recorded
  /\ lastWrite.chunk = <<"CR", "a">>
  /\ jumped
  /\ lastState.hadCarriageReturn
  /\ ~lastState.hadCursorMovement
  /\ lastState.cursorPosition = 1
  /\ lastState.cellCount = 3

SaveWords == {<<ESC, "[", "s">>, <<ESC, "7">>}

RestoreWords == {<<ESC, "[", "u">>, <<ESC, "8">>}

\* C32: savedCursor starts at 0 and is changed only by CSI s and ESC 7, which
\* store the current cursor in the same slot; reset() leaves it, and CSI u and
\* ESC 8 set the cursor to the saved value.
C32_SavedCursorSlot ==
  /\ savedCursor = 0
  /\ [](lastWrite.recorded =>
          /\ lastWrite.chunk \in SaveWords => savedCursor = lastWrite.pre.cursor
          /\ lastWrite.chunk \notin SaveWords => savedCursor = lastWrite.pre.savedCursor
          /\ lastWrite.chunk \in RestoreWords => cursor = lastWrite.pre.savedCursor)
  /\ [][savedCursor' # savedCursor =>
          lastWrite'.recorded /\ lastWrite'.chunk \in SaveWords]_vars

\* CSI u on an empty line at column 0 brings back column 2, saved earlier
C32_Witness ==
  /\ lastWrite.recorded
  /\ lastWrite.chunk = <<ESC, "[", "u">>
  /\ lastWrite.pre.cursor = 0
  /\ lastWrite.pre.cells = <<>>
  /\ cursor = 2

EraseToEndWords == {<<ESC, "[", "K">>, <<ESC, "[", "0", "K">>}

\* C33: CSI K erases by mode: mode 0 (or missing) makes the cell count equal
\* to the cursor by truncating the line and never increases the cell count;
\* mode 1 sets cells 0..cursor to Empty and leaves the cells after the cursor
\* and the cursor unchanged; mode 2 removes all cells and sets the cursor to 0.
C33_EraseInLineByMode ==
  lastWrite.recorded =>
    LET pre == lastWrite.pre IN
    /\ lastWrite.chunk \in EraseToEndWords =>
         /\ Len(cells) = cursor
         /\ Len(cells) <= Len(pre.cells)
         /\ cells = SubSeq(pre.cells, 1, Len(cells))
         /\ cursor = pre.cursor
    /\ lastWrite.chunk = <<ESC, "[", "1", "K">> =>
         /\ cursor = pre.cursor
         /\ \A j \in 0..cursor : cells[j + 1] = Empty
         /\ \A j \in (cursor + 1)..(Len(pre.cells) - 1) : cells[j + 1] = pre.cells[j + 1]
    /\ lastWrite.chunk = <<ESC, "[", "2", "K">> => cells = <<>> /\ cursor = 0

\* cs is old with the glyph ch in style sgr stored at the 0-based column col
\* and every other column as it was
OverwrittenAt(cs, old, col, ch, sgr) ==
  /\ Len(cs) = Max(Len(old), col + 1)
  /\ cs[col + 1] = Glyph(ch, sgr)
  /\ \A j \in 0..(Len(old) - 1) : j # col => cs[j + 1] = old[j + 1]

\* C34: a carriage return only moves the cursor to column 0 and modifies no
\* cell; a glyph written afterwards overwrites the cell at the cursor and
\* advances by one, and every other cell keeps its character and attributes.
C34_CarriageReturnOverwrites ==
  lastWrite.recorded =>
    LET pre == lastWrite.pre IN
    /\ lastWrite.chunk = <<"CR">> =>
         /\ cursor = 0
         /\ cells = pre.cells
         /\ activeSgr = pre.activeSgr
         /\ savedCursor = pre.savedCursor
    /\ lastWrite.chunk = <<"a">> =>
         /\ cursor = pre.cursor + 1
         /\ OverwrittenAt(cells, pre.cells, pre.cursor, "a", pre.activeSgr)
    /\ lastWrite.chunk = <<"CR", "a">> =>
         /\ cursor = 1
         /\ OverwrittenAt(cells, pre.cells, 0, "a", pre.activeSgr)

\* two plain glyphs, then bold, then a carriage return and a glyph: column 0
\* holds the bold glyph and column 1 still holds the plain one
C34_Witness ==
  /\ lastWrite.recorded
  /\ lastWrite.chunk = <<"CR", "a">>
  /\ lastWrite.pre.cursor = 2
  /\ lastWrite.pre.cells = <<Glyph("a", EmptySgr), Glyph("a", EmptySgr)>>
  /\ cells[1] = Glyph("a", activeSgr)
  /\ cells[1] # cells[2]
  /\ cells[2] = Glyph("a", EmptySgr)

\* the column a horizontal cursor command leaves, from the column col
ColumnAfter(word, col) ==
  CASE word \in {<<ESC, "[", "G">>, <<ESC, "[", "0", "G">>} -> 0
    [] word = <<ESC, "[", "3", "G">> -> 2
    [] word = <<ESC, "[", "2", "GRAVE">> -> 1
    [] word \in {<<ESC, "[", "C">>, <<ESC, "[", "0", "C">>} -> col + 1
    [] word = <<ESC, "[", "2", "C">> -> col + 2
    [] word \in {<<ESC, "[", "D">>, <<ESC, "[", "0", "D">>, <<"BS">>} ->
         IF col >= 1 THEN col - 1 ELSE 0
    [] word = <<ESC, "[", "2", "D">> -> IF col >= 2 THEN col - 2 ELSE 0

HorizontalWords ==
  {<<ESC, "[", "G">>, <<ESC, "[", "0", "G">>, <<ESC, "[", "3", "G">>,
   <<ESC, "[", "2", "GRAVE">>, <<ESC, "[", "C">>, <<ESC, "[", "0", "C">>,
   <<ESC, "[", "2", "C">>, <<ESC, "[", "D">>, <<ESC, "[", "0", "D">>,
   <<ESC, "[", "2", "D">>, <<"BS">>}

\* C35: horizontal cursor commands treat a 0 or missing parameter as 1 and
\* clamp at column 0: CSI n G and CSI n ` set the cursor to n-1, CSI n C adds
\* n, CSI n D and backspace subtract n resp. 1 and never go below 0; none of
\* them alters a cell, and the columns a forward motion skipped past the end are
\* Empty cells that render as single spaces once a glyph is written beyond them.
C35_HorizontalMotion ==
  lastWrite.recorded =>
    LET pre == lastWrite.pre IN
    /\ lastWrite.chunk \in HorizontalWords =>
         /\ cursor = ColumnAfter(lastWrite.chunk, pre.cursor)
         /\ cells = pre.cells
    /\ (lastWrite.chunk = <<"a">> /\ pre.cursor > Len(pre.cells)) =>
         \A j \in Len(pre.cells)..(pre.cursor - 1) :
           /\ cells[j + 1] = Empty
           /\ Visible(renderLine(cells), 1)[j + 1] = " "

\* a glyph written at column 2 of an empty line: two Empty cells before it,
\* rendered as two spaces
C35_Witness ==
  /\ lastWrite.recorded
  /\ lastWrite.chunk = <<"a">>
  /\ lastWrite.pre.cells = <<>>
  /\ lastWrite.pre.cursor = 2
  /\ lastWrite.pre.activeSgr = EmptySgr
  /\ cells = <<Empty, Empty, Glyph("a", EmptySgr)>>
  /\ renderLine(cells) = <<" ", " ", "a">>

\* C36: the cursor is never negative, after any sequence of writes, resets and
\* disposes.
C36_CursorNeverNegative == cursor >= 0

\* CSI 2 D from column 1 stops at column 0
C36_Witness ==
  /\ lastWrite.recorded
  /\ lastWrite.chunk = <<ESC, "[", "2", "D">>
  /\ lastWrite.pre.cursor = 1
  /\ cursor = 0

\* the words that write, erase, delete or insert nothing
NonEditingWords ==
  HorizontalWords \cup SaveWords \cup RestoreWords
    \cup {<<ESC, "[", "1", "m">>, <<"CR">>, <<"LF">>}

\* whether the word, written with the cursor at col, overwrites, erases,
\* deletes or inserts at the 0-based column j
EditsColumn(word, j, col) ==
  CASE word \in {<<"a">>, <<ESC, "[", "X">>} -> j = col
    [] word = <<"CR", "a">> -> j = 0
    [] word = <<ESC, "[", "1", "K">> -> j <= col
    [] word \in EraseToEndWords \cup {<<ESC, "[", "P">>, <<ESC, "[", "@">>} -> j >= col
    [] word = <<ESC, "[", "2", "K">> -> TRUE
    [] OTHER -> FALSE

\* C37: a cell keeps the attribute record that was active when its glyph was
\* written: an SGR sequence processed later, and any change of activeSgr,
\* alters no cell; only overwriting, erasing, deleting or inserting at a column
\* changes the cell of that column.
C37_CellsKeepTheirAttributes ==
  lastWrite.recorded =>
    LET pre == lastWrite.pre IN
    /\ activeSgr # pre.activeSgr => cells = pre.cells
    /\ lastWrite.chunk \in NonEditingWords => cells = pre.cells
    /\ lastWrite.chunk = <<"a">> => cells[pre.cursor + 1].sgr = pre.activeSgr
    /\ \A j \in 0..(Min(Len(cells), Len(pre.cells)) - 1) :
         cells[j + 1] # pre.cells[j + 1] => EditsColumn(lastWrite.chunk, j, pre.cursor)

\* bold is switched on after a plain glyph was written: the glyph stays plain
C37_Witness ==
  /\ lastWrite.recorded
  /\ lastWrite.chunk = <<ESC, "[", "1", "m">>
  /\ lastWrite.pre.activeSgr = EmptySgr
  /\ activeSgr.bold = Set(TRUE)
  /\ cells = <<Glyph("a", EmptySgr)>>

-----------------------------------------------------------------------------
(* Claims about what a rendered line is worth downstream *)

\* C38: hasContent() implies a non-empty rendering: whenever the terminal
\* reports content (cell count > 0), renderLine() returns a non-empty string.
C38_ContentRendersNonEmpty == hasContent(Terminal) => renderLine(cells) # <<>>

\* the line a fresh terminal renders after str was written into it
Rerendered(str) == renderLine(write(NewTerminal, str, "none").term.cells)

\* C39: rendering is a fixed point of the terminal: writing renderLine()'s
\* output into a fresh terminal and rendering that terminal yields the same
\* string.
C39_RenderIsFixedPoint == Rerendered(renderLine(cells)) = renderLine(cells)

\* C40: the leftover sub-parameters of a malformed extended color are not read
\* as other SGR codes: parse of a list that consists only of a malformed
\* extended color (38;5, 38;2;r;g and the like) returns the empty record.
C40_MalformedExtendedColorParsesToEmpty ==
  (sgrInput.kind = "params" /\ sgrOutput # NoCall /\ sgrInput.value # <<>>
     /\ Truncated(sgrInput.value, 1)) =>
    sgrOutput.value = EmptySgr

====
